---- MODULE Spec2Model ----
(***************************************************************************)
(* Model of the schema recognition / normalization engine, of the          *)
(* duplicate detector and of the aggregation engine of e-invoices-analysis *)
(* (src/utils/file_handler.py, src/services/data_processor.py,             *)
(* src/services/quick_analysis_engine.py).                                 *)
(*                                                                         *)
(* Each component has its own specification over the same variables (the   *)
(* variables of the other components stay idle):                           *)
(*   SpecDup      fn_check_duplicatedrecords applied to a record set       *)
(*   SpecMatch    fn_get_Uploadedfile_Sheetscategories on a two-sheet      *)
(*                file, then the per-sheet loop of                         *)
(*                fn_get_metadata_and_stdzed_dfs with                      *)
(*                fn_convert_Worksheet2dataframe                           *)
(*   SpecDate     fn_parse_dates_multipleformats / fn_apply_formats on a   *)
(*                cell value                                               *)
(*   SpecBatch    the upload batch loop of the data processor              *)
(*   SpecLoad     load_parameters called by concurrent callers             *)
(*   SpecHandler  fn_handle_specific_cases invoked sheet after sheet       *)
(*   SpecAnalysis generate_quick_analysis on one category: the yearly      *)
(*                summary and the Top-N analysis                           *)
(*   SpecCompare  fn_compare_non_numeric_fields on a pair of text fields   *)
(*                of two categories (src/components/comparison.py)         *)
(*   SpecTransform  one record-set transform of fn_handle_specific_cases:  *)
(*                sign exchange, refund status, missing dates, summary /   *)
(*                details split, trades category                           *)
(*   SpecOrchestrator  run_analysis called on one                          *)
(*                GlobalAnalysisOrchestrator                               *)
(*                (src/services/global_analysis_orchestrator.py);          *)
(*                SpecOrchestratorLive adds the fairness of the stage loop *)
(***************************************************************************)
EXTENDS Integers, Sequences, FiniteSets, TLC

VARIABLES
    \* ---- duplicate detector ----
    str_datasetcategory,   \* category the record set is bound to
    df_before,             \* record set handed to the last call
    df_dataset,            \* current record set (result of the last call)
    lst_Criteriacolumns,   \* key columns resolved by the last call
    dup_calls,             \* number of calls of fn_check_duplicatedrecords so far
    \* ---- schema matcher and column mapper (one uploaded file) ----
    dic_myfile_dfs,             \* the uploaded file: sheet name -> raw sheet
    dic_myfilesheetscategories, \* sheet name -> matcher result, then stored entry
    dic_updated_sheets,         \* sheet name -> entry of a sheet processed so far
    int_sheet,                  \* position of the per-sheet loop in lst_Sheets
    lst_sheet_errors,           \* sheets whose error the loop caught and logged
    mpc,                        \* position in fn_get_metadata_and_stdzed_dfs
    \* ---- type normalizer (one cell of a record set) ----
    str_format,       \* format of the cell's column: FORMAT FLOAT or FORMAT DATE
    var_raw,          \* the cell as read from the sheet
    var_before,       \* the cell before the last call of fn_apply_formats
    var_cell,         \* the cell now
    str_substituted,  \* dte_mydate after fn_replace_months in the last call
    fmt_calls,        \* calls of fn_apply_formats so far
    fmt_raised,       \* exception the last call ended with, "" when none
    \* ---- upload batch ----
    uploaded_files,   \* the files of the batch, in upload order
    file_metadata,    \* st.session_state.file_metadata: file name -> result
    dict_file_data,   \* dashboard rows recorded so far: (file name, sheet name)
    int_file,         \* position of the batch loop in uploaded_files
    bpc,              \* "loop", "done", or the exception that ended the run
    \* ---- catalog loader (class attributes and concurrent callers) ----
    src_params,            \* the external parameter source: its state and version
    dic_filesparams_dfs,   \* the workbook last read, None before any read
    dic_catalog,           \* catalog table -> version it was taken from, None when unset
    bln_parameters_loaded, \* the "loaded" flag of the class
    int_source_reads,      \* reads of the external source so far
    lpc,                   \* caller -> position in load_parameters
    load_calls,            \* caller -> calls of load_parameters so far
    load_returned,         \* caller -> how its last call ended, "" before
    \* ---- post-processing handler ----
    dic_dfs_CustomExcelfiles,  \* the default-argument dict of fn_handle_specific_cases
    dic_Allprocesseddatasets,  \* its second default-argument dict
    df_handled,                \* record set returned by the last invocation
    handler_calls,             \* invocations so far
    \* ---- quick analysis engine ----
    df_numeric_config,   \* ComparisonRulesManager.df_numeric_config (pattern rows)
    exclude_patterns,    \* self.exclude_patterns, kept by the constructor
    qa_group_name,       \* statement group of the category analysed last
    qa_df,               \* df_with_dups handed to _analyze_single_category
    yearly_summary,      \* analysis['yearly_summary'] of the last category
    top_analysis,        \* analysis['top_analysis'] of the last category
    qa_calls,            \* categories analysed so far
    \* ---- category comparison ----
    cat1_name,        \* the baseline category chosen in the page
    cat2_name,        \* the category compared to it
    col_cat1,         \* df_cat1[field_cat1]: the values of the first field
    col_cat2,         \* df_cat2[field_cat2]: the values of the second field
    comp_res,         \* res of the last fn_compare_non_numeric_fields
    comp_txt,         \* the results kept by the page
    cmp_calls,        \* comparisons generated so far
    \* ---- record-set transforms of the post-processing handler ----
    tr_op,            \* the transform applied, "" before
    df_in,            \* the record set handed to it
    df_out,           \* the record set it returned
    tr_calls,         \* transforms applied so far
    \* ---- global analysis orchestrator (one GlobalAnalysisOrchestrator) ----
    orch_file_metadata,  \* self.file_metadata: the files, each with its sheets
    results,             \* self.results
    stages,              \* the stage list of the run in progress
    int_stage,           \* position of _execute_stages in the stage list
    opc,                 \* "idle", "running" or "returned"
    run_calls,           \* calls of run_analysis so far
    lst_executed,        \* the stages called by the run in progress, in order
    lst_raised           \* the stages that raised since construction, in order

dupvars == <<str_datasetcategory, df_before, df_dataset, lst_Criteriacolumns, dup_calls>>

matchvars == <<dic_myfile_dfs, dic_myfilesheetscategories, dic_updated_sheets,
               int_sheet, lst_sheet_errors, mpc>>

fmtvars == <<str_format, var_raw, var_before, var_cell, str_substituted,
             fmt_calls, fmt_raised>>

batchvars == <<uploaded_files, file_metadata, dict_file_data, int_file, bpc>>

loadvars == <<src_params, dic_filesparams_dfs, dic_catalog, bln_parameters_loaded,
              int_source_reads, lpc, load_calls, load_returned>>

handlervars == <<dic_dfs_CustomExcelfiles, dic_Allprocesseddatasets, df_handled,
                 handler_calls>>

qavars == <<df_numeric_config, exclude_patterns, qa_group_name, qa_df,
            yearly_summary, top_analysis, qa_calls>>

cmpvars == <<cat1_name, cat2_name, col_cat1, col_cat2, comp_res, comp_txt, cmp_calls>>

\* the components added after the analysis engine
trvars == <<tr_op, df_in, df_out, tr_calls>>

orchvars == <<orch_file_metadata, results, stages, int_stage, opc, run_calls,
              lst_executed, lst_raised>>

later_vars == <<cmpvars, trvars, orchvars>>

vars == <<dupvars, matchvars, fmtvars, batchvars, loadvars, handlervars, qavars,
          later_vars>>

\* the components up to the analysis engine
core_vars == <<dupvars, matchvars, fmtvars, batchvars, loadvars, handlervars, qavars>>

\* The variables of the other components, which a component leaves alone
dup_others == <<matchvars, fmtvars, batchvars, loadvars, handlervars, qavars, later_vars>>
match_others == <<dupvars, fmtvars, batchvars, loadvars, handlervars, qavars, later_vars>>
fmt_others == <<dupvars, matchvars, batchvars, loadvars, handlervars, qavars, later_vars>>
batch_others == <<dupvars, matchvars, fmtvars, loadvars, handlervars, qavars, later_vars>>
load_others == <<dupvars, matchvars, fmtvars, batchvars, handlervars, qavars, later_vars>>
handler_others == <<dupvars, matchvars, fmtvars, batchvars, loadvars, qavars, later_vars>>
qa_others == <<dupvars, matchvars, fmtvars, batchvars, loadvars, handlervars, later_vars>>
cmp_others == <<core_vars, trvars, orchvars>>
tr_others == <<core_vars, cmpvars, orchvars>>
orch_others == <<core_vars, cmpvars, trvars>>

(***************************************************************************)
(* Generic helpers                                                         *)
(***************************************************************************)
Range(s) == {s[i] : i \in DOMAIN s}

RECURSIVE SelectSeqBy(_, _)
\* [x for x in s if x in keep], the order of s kept
SelectSeqBy(s, keep) ==
    IF s = <<>> THEN <<>>
    ELSE IF Head(s) \in keep
         THEN <<Head(s)>> \o SelectSeqBy(Tail(s), keep)
         ELSE SelectSeqBy(Tail(s), keep)

\* Set of sequences over S of length 0..n
SeqUpTo(S, n) == UNION {[1..k -> S] : k \in 0..n}

(***************************************************************************)
(* Duplicate detector: fn_check_duplicatedrecords                          *)
(***************************************************************************)
MaxRecords == 3      \* records in a modelled record set
MaxDupCalls == 2     \* calls of the detector on the same record set

NO_DUPLICATES == "NO duplicates"
HAS_DUPLICATES == "HAS duplicates"
IS_DUPLICATE == "IS duplicate"
StatusColumn == "Duplicate Status"

\* pd.DataFrame(): no column, no row
EmptyDataFrame == [columns |-> <<>>, rows |-> <<>>]

\* DataFrame.empty: one of the axes has length 0
IsEmptyDF(df) == df.columns = <<>> \/ df.rows = <<>>

\* str.strip() on the strings that occur in the modelled parameter sheet
Strip(s) ==
    CASE s = "a " -> "a"
      [] s = " b" -> "b"
      [] s = " " -> ""
      [] OTHER -> s

\* The "Check_duplicates" parameter sheet: one column per category, holding
\* the key field names; shorter columns are padded with '' (na_filter=False).
df_Check_duplicates_params ==
    [c \in {"CAT KEY A", "CAT KEY AB", "CAT KEY Z", "CAT NO KEY"} |->
        CASE c = "CAT KEY A" -> <<"a ", "z">>
          [] c = "CAT KEY AB" -> <<"a ", " b">>
          [] c = "CAT KEY Z" -> <<"z", "">>
          [] c = "CAT NO KEY" -> <<"", "">>]

\* df_Check_duplicates_params.get(cat, pd.Series()).dropna().str.strip().tolist()
ConfiguredCriteria(cat) ==
    IF cat \in DOMAIN df_Check_duplicates_params
    THEN [i \in DOMAIN df_Check_duplicates_params[cat] |->
              Strip(df_Check_duplicates_params[cat][i])]
    ELSE <<>>

\* Variant without the fallback to all the columns
ResolveCriteriaAlwaysConfigured(df, cat) ==
    SelectSeqBy(ConfiguredCriteria(cat), Range(df.columns))

\* [col for col in lst if col in df.columns] or df.columns.tolist()
ResolveCriteria(df, cat) ==
    LET lst == SelectSeqBy(ConfiguredCriteria(cat), Range(df.columns))
    IN  IF lst # <<>> THEN lst ELSE df.columns

\* the key tuple of row i under the key columns
KeyOf(df, key, i) == [k \in DOMAIN key |-> df.rows[i][key[k]]]

\* Variant marking every occurrence but the last one (keep='last')
DuplicatedKeepLast(df, key) ==
    [i \in DOMAIN df.rows |->
        \E j \in DOMAIN df.rows : j > i /\ KeyOf(df, key, j) = KeyOf(df, key, i)]

\* DataFrame.duplicated(subset=key, keep='first')
DuplicatedKeepFirst(df, key) ==
    [i \in DOMAIN df.rows |->
        \E j \in DOMAIN df.rows : j < i /\ KeyOf(df, key, j) = KeyOf(df, key, i)]

\* DataFrame.duplicated(subset=key, keep=False)
DuplicatedKeepNone(df, key) ==
    [i \in DOMAIN df.rows |->
        \E j \in DOMAIN df.rows : j # i /\ KeyOf(df, key, j) = KeyOf(df, key, i)]

\* df[col] = value on every row (the column is appended when it is new)
WithColumn(df, col, values) ==
    [columns |-> IF col \in Range(df.columns) THEN df.columns
                 ELSE Append(df.columns, col),
     rows |-> [i \in DOMAIN df.rows |->
                 [c \in DOMAIN df.rows[i] \cup {col} |->
                     IF c = col THEN values[i] ELSE df.rows[i][c]]]]

fn_check_duplicatedrecords(df, cat) ==
    IF IsEmptyDF(df) THEN EmptyDataFrame
    ELSE LET key == ResolveCriteria(df, cat)
             var_duplicate_mask == DuplicatedKeepFirst(df, key)
             var_all_duplicates_mask == DuplicatedKeepNone(df, key)
             status == [i \in DOMAIN df.rows |->
                          IF var_duplicate_mask[i] THEN IS_DUPLICATE
                          ELSE IF var_all_duplicates_mask[i] THEN HAS_DUPLICATES
                          ELSE NO_DUPLICATES]
         IN  WithColumn(df, StatusColumn, status)

\* Values of the modelled record sets
CellValues == {1, 2}
ColumnLayouts == {<<"a">>, <<"a", "b">>}
Categories == DOMAIN df_Check_duplicates_params \cup {"CAT ABSENT"}

RecordSets ==
    UNION {[columns : {cols}, rows : SeqUpTo([Range(cols) -> CellValues], MaxRecords)]
             : cols \in ColumnLayouts}

DupInit ==
    /\ str_datasetcategory \in Categories
    /\ df_dataset \in RecordSets
    /\ df_before = EmptyDataFrame
    /\ lst_Criteriacolumns = <<>>
    /\ dup_calls = 0

DupIdle ==
    /\ str_datasetcategory = "CAT ABSENT"
    /\ df_dataset = EmptyDataFrame
    /\ df_before = EmptyDataFrame
    /\ lst_Criteriacolumns = <<>>
    /\ dup_calls = 0

\* One call df = fn_check_duplicatedrecords(df, category), as made by the
\* analysis engine and by the comparison component on the stored record set.
CheckDuplicates ==
    /\ dup_calls < MaxDupCalls
    /\ df_before' = df_dataset
    /\ df_dataset' = fn_check_duplicatedrecords(df_dataset, str_datasetcategory)
    /\ lst_Criteriacolumns' =
          IF IsEmptyDF(df_dataset) THEN <<>>
          ELSE ResolveCriteria(df_dataset, str_datasetcategory)
    /\ dup_calls' = dup_calls + 1
    /\ UNCHANGED str_datasetcategory
    /\ UNCHANGED dup_others

DupNext == CheckDuplicates

(***************************************************************************)
(* Schema matcher: fn_get_Uploadedfile_Sheetscategories and its inner      *)
(* fn_find_matching_category                                               *)
(***************************************************************************)
MaxBodyRows == 2     \* rows of a modelled sheet below its leading title rows

max_iterations == 25 \* rows scanned by fn_find_matching_category
nrows == 35          \* rows read by fn_get_file_as_dicdataframes
None == -1           \* Python's None where the code yields a row index

UNKNOWN == "UNKNOWN"

\* str(cell).upper().strip() on the cell texts that occur in the model
UpperStrip(cell) ==
    CASE cell \in {"Inv", "inv ", " INV"} -> "INV"
      [] cell \in {"Date", "date ", "DATE"} -> "DATE"
      [] cell \in {"Amt", " amt", "AMT"} -> "AMT"
      [] cell = "x" -> "X"
      [] cell = "y" -> "Y"
      [] cell = "z" -> "Z"
      [] cell = " " -> ""
      [] OTHER -> cell

\* str.upper() of a category name
Upper(str) ==
    CASE str \in {"Unknown", "unknown"} -> "UNKNOWN"
      [] OTHER -> str

\* The "FileHeaders" parameter sheet: one column of raw header texts per
\* category, in the sheet's column order; shorter columns are padded with ''.
df_Original_headers ==
    << [category |-> "EBM SALES V02",     headers |-> <<"Inv", "date ", "Amt">>],
       [category |-> "EBM SALES V01",     headers |-> <<"Inv", "Date", "">>],
       [category |-> "EBM PURCHASES V01", headers |-> <<"Date", "Inv", "">>],
       [category |-> "BANK STATEMENT V01", headers |-> <<" amt", "", "">>] >>

\* The "FindapHeaders" parameter sheet: the canonical headers per category
df_Findap_newheaders ==
    [c \in {df_Original_headers[e].category : e \in DOMAIN df_Original_headers} |->
        CASE c = "EBM SALES V01" ->
                <<"INVOICE NUMBER", "TRANSACTION DATE", "AMOUNT">>
          [] c = "EBM SALES V02" ->
                <<"INVOICE NUMBER", "TRANSACTION DATE", "AMOUNT">>
          [] c = "EBM PURCHASES V01" ->
                <<"TRANSACTION DATE", "INVOICE NUMBER", "">>
          [] c = "BANK STATEMENT V01" ->
                <<"AMOUNT", "BALANCE", "REFERENCE">>]

\* A raw sheet: lead title rows, then the body rows; every row has width cells
TitleRow(width) == [c \in 1..width |-> IF c = 1 THEN "x" ELSE ""]

SheetRows(sheet) ==
    [i \in 1..(sheet.lead + Len(sheet.body)) |->
        IF i <= sheet.lead THEN TitleRow(sheet.width) ELSE sheet.body[i - sheet.lead]]

\* fn_get_file_as_dicdataframes: the first nrows rows of the sheet, read
\* without a header row
ReadSheetHead(sheet) ==
    LET all == SheetRows(sheet)
    IN  IF Len(all) <= nrows THEN all ELSE SubSeq(all, 1, nrows)

Min(a, b) == IF a <= b THEN a ELSE b

\* lst_currentheaders: the non-empty header texts of entry e, normalized
CurrentHeaders(e) ==
    LET raw == df_Original_headers[e].headers
        kept == SelectSeqBy(raw, Range(raw) \ {""})
    IN  [i \in DOMAIN kept |-> UpperStrip(kept[i])]

\* lst_mycurrentrow: the normalized cells of the row with 0-based index r
CurrentRow(df, r) == [c \in DOMAIN df[r + 1] |-> UpperStrip(df[r + 1][c])]

IsExactMatch(df, r, e) == Range(CurrentHeaders(e)) = Range(CurrentRow(df, r))

IsSubsetMatch(df, r, e) == Range(CurrentHeaders(e)) \subseteq Range(CurrentRow(df, r))

\* [new_head for new_head in df_Findap_newheaders[cat].tolist() if new_head]
NewHeaders(cat) ==
    LET raw == df_Findap_newheaders[cat]
    IN  SelectSeqBy(raw, Range(raw) \ {""})

RECURSIVE MatchingPositions(_, _, _)
\* [idx for idx, header in enumerate(row) if header in headers], 0-based,
\* for the cells c..Len(row) of the row
MatchingPositions(row, headers, c) ==
    IF c > Len(row) THEN <<>>
    ELSE IF row[c] \in headers
         THEN <<c - 1>> \o MatchingPositions(row, headers, c + 1)
         ELSE MatchingPositions(row, headers, c + 1)

\* The tuple returned for a hit of entry e at row r
MatchResult(df, r, e) ==
    [category |-> df_Original_headers[e].category,
     header_row |-> r,
     current_headers |-> CurrentHeaders(e),
     headers_idx |-> MatchingPositions(CurrentRow(df, r), Range(CurrentHeaders(e)), 1),
     new_headers |-> NewHeaders(df_Original_headers[e].category)]

NoMatchResult ==
    [category |-> UNKNOWN, header_row |-> None, current_headers |-> <<>>,
     headers_idx |-> <<>>, new_headers |-> <<>>]

\* The hits of one pass: the (row, entry) pairs of the nested loops
\* "for row in range(max_iterations): for entry in catalog" that pass Test
PassHits(df, Test(_, _, _)) ==
    {p \in (0..(Min(Len(df), max_iterations) - 1)) \X DOMAIN df_Original_headers :
        Test(df, p[1], p[2])}

\* Variant with the loops swapped: catalog entries outermost
FirstHitEntryMajor(hits) ==
    CHOOSE p \in hits :
        \A q \in hits : p[2] < q[2] \/ (p[2] = q[2] /\ p[1] <= q[1])

\* The first hit in loop order: rows outermost, catalog entries innermost
FirstHit(hits) ==
    CHOOSE p \in hits :
        \A q \in hits : p[1] < q[1] \/ (p[1] = q[1] /\ p[2] <= q[2])

\* Variant with one pass only, which takes an exact or a subset hit
fn_find_matching_category_SinglePass(df) ==
    LET hits == PassHits(df, IsSubsetMatch)
    IN  IF hits # {}
        THEN MatchResult(df, FirstHit(hits)[1], FirstHit(hits)[2])
        ELSE NoMatchResult

\* Pass 1 over exact hits, then pass 2 over subset hits, then UNKNOWN
fn_find_matching_category(df) ==
    LET exact == PassHits(df, IsExactMatch)
        subset == PassHits(df, IsSubsetMatch)
    IN  IF exact # {}
        THEN MatchResult(df, FirstHit(exact)[1], FirstHit(exact)[2])
        ELSE IF subset # {}
        THEN MatchResult(df, FirstHit(subset)[1], FirstHit(subset)[2])
        ELSE NoMatchResult

(***************************************************************************)
(* Column mapper: fn_convert_Worksheet2dataframe (the read_excel path of   *)
(* every category but the DHEgrp-Xl ones)                                  *)
(***************************************************************************)
\* range(a, b) as a list
PyRange(a, b) == IF b > a THEN [i \in 1..(b - a) |-> a + i - 1] ELSE <<>>

\* lst_currentheadersindex.extend(range(len(idx) + 1, len(new) + 1))
ExtendHeadersIndex(idx, new) == idx \o PyRange(Len(idx) + 1, Len(new) + 1)

\* Number of members of S below x
RankIn(S, x) == Cardinality({y \in S : y < x})

\* read_excel(header=None, skiprows=header_row + 1, usecols=usecols), then
\* df.columns = lst_Newheaders.  usecols is taken as a set of 0-based column
\* numbers and the columns come back in sheet order.
\*   "empty"  no data row is left below the header row, or no column is
\*            asked for: the code returns pd.DataFrame()
\*   "raise"  a column number is out of the sheet (ParserError), or the
\*            number of columns read differs from the number of new headers
\*            (ValueError)
\*   "ok"     rename maps each column number read to its canonical header
fn_convert_Worksheet2dataframe(sheet, int_headerrow, current, idx, new) ==
    LET usecols == ExtendHeadersIndex(idx, new)
        names == IF new = <<>> THEN current ELSE new
        cols == Range(usecols)
        ndata == Len(SheetRows(sheet)) - (int_headerrow + 1)
    IN  IF ndata <= 0 \/ cols = {}
        THEN [status |-> "empty", matched |-> idx, usecols |-> usecols,
              rename |-> <<>>]
        ELSE IF \E c \in cols : c >= sheet.width
        THEN [status |-> "raise", matched |-> idx, usecols |-> usecols,
              rename |-> <<>>]
        ELSE IF Cardinality(cols) # Len(names)
        THEN [status |-> "raise", matched |-> idx, usecols |-> usecols,
              rename |-> <<>>]
        ELSE [status |-> "ok", matched |-> idx, usecols |-> usecols,
              rename |-> [c \in cols |-> names[RankIn(cols, c) + 1]]]

(***************************************************************************)
(* fn_get_metadata_and_stdzed_dfs: categorize the sheets of the file, then *)
(* convert each sheet and store its entry                                  *)
(***************************************************************************)
lst_Sheets == <<"Sheet1", "Sheet2">>

\* Variant keeping the matcher's header row as it is
HeaderRowAsMatched(category, header_row) == header_row

\* if str_Filecategory.upper() in ['UNKNOWN', None, '']: int_myheaderrow = 0
HeaderRowForConversion(category, header_row) ==
    IF Upper(category) \in {UNKNOWN, ""} THEN 0 ELSE header_row

\* Leading title rows of the modelled sheets: none, or enough of them to
\* push the body to the last scanned row or past it
LeadChoices == {0, max_iterations - 1, max_iterations}

BodyRows(width) ==
    CASE width = 3 -> { <<"Inv", "Date", "Amt">>,
                        <<"date ", "inv ", "Inv">>,
                        <<"x", "Amt", "y">>,
                        <<"x", "y", "">> }
      [] width = 4 -> { <<"Inv", "Date", "Amt", " INV">>,
                        <<"Date", "x", "Inv", "y">>,
                        <<"AMT", "x", "y", "z">>,
                        <<"x", "Inv", "y", "Date">>,
                        <<"x", "y", "", "">> }
      [] width = 5 -> { <<"Inv", "x", "y", "z", "DATE">>,
                        <<"x", "y", "z", "", "">> }

Widths == {3, 4, 5}

SheetsOf(width, lead) ==
    [width : {width}, lead : {lead}, body : SeqUpTo(BodyRows(width), MaxBodyRows)]

\* The two sheets of a modelled file have the same shape and differ in at
\* most one body row
SameButOneRow(a, b) ==
    /\ Len(a.body) = Len(b.body)
    /\ \A i, j \in DOMAIN a.body :
          (a.body[i] # b.body[i] /\ a.body[j] # b.body[j]) => i = j

MatchInit ==
    /\ \E w \in Widths, l \in LeadChoices :
          dic_myfile_dfs \in [Range(lst_Sheets) -> SheetsOf(w, l)]
    /\ SameButOneRow(dic_myfile_dfs[lst_Sheets[1]], dic_myfile_dfs[lst_Sheets[2]])
    /\ dic_myfilesheetscategories = <<>>
    /\ dic_updated_sheets = <<>>
    /\ int_sheet = 1
    /\ lst_sheet_errors = <<>>
    /\ mpc = "categorize"

MatchIdle ==
    /\ dic_myfile_dfs = <<>>
    /\ dic_myfilesheetscategories = <<>>
    /\ dic_updated_sheets = <<>>
    /\ int_sheet = 1
    /\ lst_sheet_errors = <<>>
    /\ mpc = "idle"

\* dic_myfilesheetscategories = fn_get_Uploadedfile_Sheetscategories(file)
Categorize ==
    /\ mpc = "categorize"
    /\ dic_myfilesheetscategories' =
          [s \in DOMAIN dic_myfile_dfs |->
              fn_find_matching_category(ReadSheetHead(dic_myfile_dfs[s]))]
    /\ mpc' = "sheets"
    /\ UNCHANGED <<dic_myfile_dfs, dic_updated_sheets, int_sheet, lst_sheet_errors>>
    /\ UNCHANGED match_others

\* Variant in which an exception of one sheet ends the loop
NextSheetAbortOnRaise(i, status) ==
    IF status = "raise" THEN Len(lst_Sheets) + 1 ELSE i + 1

\* The try/except lies inside the loop body: whatever the outcome of sheet
\* i, the loop goes on with sheet i + 1
NextSheet(i, status) == i + 1

\* One pass of "for str_mysheetname in lst_Sheets": unpack the entry, use
\* header row 0 for an unknown category, convert the sheet; the conversion
\* extends the entry's own position list in place; when it raises, the
\* error is logged and the sheet gets no updated entry.  For the categories
\* of the modelled catalog fn_handle_specific_cases returns the converted
\* record set as it is.
ProcessSheet ==
    /\ mpc = "sheets"
    /\ int_sheet <= Len(lst_Sheets)
    /\ LET s == lst_Sheets[int_sheet]
           m == dic_myfilesheetscategories[s]
           row == HeaderRowForConversion(m.category, m.header_row)
           conv == fn_convert_Worksheet2dataframe(dic_myfile_dfs[s], row,
                       m.current_headers, m.headers_idx, m.new_headers)
       IN  /\ dic_myfilesheetscategories' =
                 [dic_myfilesheetscategories EXCEPT ![s].headers_idx = conv.usecols]
           /\ dic_updated_sheets' =
                 IF conv.status = "raise" THEN dic_updated_sheets
                 ELSE [t \in DOMAIN dic_updated_sheets \cup {s} |->
                          IF t = s
                          THEN [category |-> m.category, header_row |-> row,
                                current_headers |-> m.current_headers,
                                headers_idx |-> conv.usecols,
                                new_headers |-> m.new_headers,
                                df |-> conv]
                          ELSE dic_updated_sheets[t]]
           /\ lst_sheet_errors' =
                 IF conv.status = "raise" THEN Append(lst_sheet_errors, s)
                 ELSE lst_sheet_errors
           /\ int_sheet' = NextSheet(int_sheet, conv.status)
    /\ UNCHANGED <<dic_myfile_dfs, mpc>>
    /\ UNCHANGED match_others

\* After the loop: dic_myfilesheetscategories[sheet] = lst_updated for every
\* updated sheet, and the mapping is returned
ApplyUpdates ==
    /\ mpc = "sheets"
    /\ int_sheet > Len(lst_Sheets)
    /\ dic_myfilesheetscategories' =
          [s \in DOMAIN dic_myfilesheetscategories |->
              IF s \in DOMAIN dic_updated_sheets THEN dic_updated_sheets[s]
              ELSE dic_myfilesheetscategories[s]]
    /\ mpc' = "done"
    /\ UNCHANGED <<dic_myfile_dfs, dic_updated_sheets, int_sheet, lst_sheet_errors>>
    /\ UNCHANGED match_others

MatchNext == Categorize \/ ProcessSheet \/ ApplyUpdates

(***************************************************************************)
(* Upload batch: the loop over the uploaded files, with                    *)
(* fn_get_metadata_and_stdzed_dfs taken as a whole and                     *)
(* fn_get_metadata_from_files                                              *)
(***************************************************************************)
MaxFiles == 2        \* files of a modelled batch

\* The key var_mysheet (Python None) under which a file that cannot be
\* opened gets its single entry
var_mysheet == "None"

\* The entry a sheet is left with: the stored 6-element entry when the
\* conversion returns, the matcher's 5-element entry (its position list
\* extended in place) when it raises
SheetEntry(sheet) ==
    LET m == fn_find_matching_category(ReadSheetHead(sheet))
        row == HeaderRowForConversion(m.category, m.header_row)
        conv == fn_convert_Worksheet2dataframe(sheet, row, m.current_headers,
                    m.headers_idx, m.new_headers)
    IN  IF conv.status = "raise"
        THEN [m EXCEPT !.headers_idx = conv.usecols]
        ELSE [category |-> m.category, header_row |-> row,
              current_headers |-> m.current_headers,
              headers_idx |-> conv.usecols,
              new_headers |-> m.new_headers,
              df |-> conv]

\* fn_get_metadata_and_stdzed_dfs(file).  A workbook that cannot be opened
\* makes fn_get_Uploadedfile_Sheetscategories return the single entry
\* {None: UNKNOWN}; the conversion of that "sheet" raises as well and the
\* entry stays as it is.
fn_get_metadata_and_stdzed_dfs(file) ==
    IF file.readable
    THEN [s \in DOMAIN file.sheets |-> SheetEntry(file.sheets[s])]
    ELSE [s \in {var_mysheet} |-> NoMatchResult]

\* The sheets of a result in the order of the mapping
SheetOrder(dic) ==
    IF DOMAIN dic = {var_mysheet} THEN <<var_mysheet>> ELSE lst_Sheets

\* fn_get_metadata_from_files: for each sheet "category, df = lst_values[0],
\* lst_values[5]", then one dashboard row per sheet.  rows are the rows
\* recorded, raised the exception that escapes ("" when none).
fn_get_metadata_from_files(name, dic) ==
    LET order == SheetOrder(dic)
        partial == {i \in DOMAIN order : "df" \notin DOMAIN dic[order[i]]}
        upto == IF partial = {} THEN Len(order)
                ELSE (CHOOSE i \in partial : \A j \in partial : i <= j) - 1
    IN  [rows |-> {<<name, order[i]>> : i \in 1..upto},
         raised |-> IF partial = {} THEN "" ELSE "IndexError"]

\* Sheets of the modelled files: one that converts, one whose conversion
\* raises, one that no category matches
GoodSheet ==
    [width |-> 3, lead |-> 0, body |-> << <<"Inv", "Date", "Amt">>, <<"x", "y", "">> >>]

RaisingSheet ==
    [width |-> 3, lead |-> 0, body |-> << <<"x", "Amt", "y">>, <<"x", "y", "">> >>]

UnknownSheet ==
    [width |-> 3, lead |-> 0, body |-> << <<"x", "y", "">> >>]

FileNames == {"a.xlsx", "b.xlsx"}

UploadedFiles ==
    [name : FileNames, readable : {TRUE},
     sheets : [Range(lst_Sheets) -> {GoodSheet, RaisingSheet, UnknownSheet}]]
    \cup [name : FileNames, readable : {FALSE}, sheets : {<<>>}]

BatchInit ==
    /\ uploaded_files \in UNION {[1..n -> UploadedFiles] : n \in 1..MaxFiles}
    /\ file_metadata = <<>>
    /\ dict_file_data = {}
    /\ int_file = 1
    /\ bpc = "loop"

BatchIdle ==
    /\ uploaded_files = <<>>
    /\ file_metadata = <<>>
    /\ dict_file_data = {}
    /\ int_file = 1
    /\ bpc = "idle"

\* One pass of "for i, file in enumerate(uploaded_files)": a file whose name
\* is not in the session state is processed and stored, then its dashboard
\* rows are recorded; an exception of fn_get_metadata_from_files is caught
\* nowhere and ends the run
ProcessFile ==
    /\ bpc = "loop"
    /\ int_file <= Len(uploaded_files)
    /\ LET file == uploaded_files[int_file]
           stored == IF file.name \in DOMAIN file_metadata THEN file_metadata
                     ELSE [n \in DOMAIN file_metadata \cup {file.name} |->
                              IF n = file.name
                              THEN fn_get_metadata_and_stdzed_dfs(file)
                              ELSE file_metadata[n]]
           data == fn_get_metadata_from_files(file.name, stored[file.name])
       IN  /\ file_metadata' = stored
           /\ dict_file_data' = dict_file_data \cup data.rows
           /\ IF data.raised = ""
              THEN int_file' = int_file + 1 /\ bpc' = "loop"
              ELSE int_file' = int_file /\ bpc' = data.raised
    /\ UNCHANGED uploaded_files
    /\ UNCHANGED batch_others

\* After the loop the dashboard is displayed
DisplayDashboard ==
    /\ bpc = "loop"
    /\ int_file > Len(uploaded_files)
    /\ bpc' = "done"
    /\ UNCHANGED <<uploaded_files, file_metadata, dict_file_data, int_file>>
    /\ UNCHANGED batch_others

BatchNext == ProcessFile \/ DisplayDashboard

(***************************************************************************)
(* Catalog loader: load_parameters and the accessors that call it, run by  *)
(* concurrent callers on the class attributes                              *)
(***************************************************************************)
MaxLoadCalls == 2        \* calls of load_parameters by one caller
MaxSourceVersion == 2    \* versions the external source goes through

Callers == {1, 2}

\* The class attributes assigned from the workbook, in the order of the
\* assignments, each with the sheet it is taken from
lst_catalog_tables ==
    << <<"df_Original_headers", "FileHeaders">>,
       <<"df_Findap_newheaders", "FindapHeaders">>,
       <<"df_Categoriesparams", "Categories_sheetnames">>,
       <<"df_Fields_formats", "Dataformat">>,
       <<"df_Dates_regex", "Dates formats">>,
       <<"df_Check_duplicates_params", "Check_duplicates">>,
       <<"df_Findap_GlobalAnalysis_headers", "Findap_GlobalAnalysis">>,
       <<"df_Findap_Grouping_WHT_headers", "Findap_Grouping_WHT">>,
       <<"df_Findap_Cashflowdata_headers", "Findap_Cashflowdata">>,
       <<"df_Findap_RRAdsccombined_headers", "Findap_RRAdsccombined">>,
       <<"df_finstatment_map", "Fin Statements map">>,
       <<"df_TB_params", "Trial Balance parameters">> >>

CatalogTables == {lst_catalog_tables[i][1] : i \in DOMAIN lst_catalog_tables}

\* States of the external source: the workbook can be fetched and is whole;
\* it cannot be fetched; it can be fetched but lacks the "Dates formats" sheet
SourceStates == {"ok", "unreachable", "malformed"}

SheetsOfSource(state) ==
    {lst_catalog_tables[i][2] : i \in DOMAIN lst_catalog_tables}
        \ (IF state = "malformed" THEN {"Dates formats"} ELSE {})

\* The assignments of lines 455-467 on workbook dic, up to the first sheet
\* the workbook lacks (KeyError)
AssignTables(catalog, dic) ==
    LET missing == {i \in DOMAIN lst_catalog_tables :
                        lst_catalog_tables[i][2] \notin dic.sheets}
        upto == IF missing = {} THEN Len(lst_catalog_tables)
                ELSE (CHOOSE i \in missing : \A j \in missing : i <= j) - 1
        assigned == {lst_catalog_tables[i][1] : i \in 1..upto}
    IN  [catalog |-> [t \in CatalogTables |->
                         IF t \in assigned THEN dic.version ELSE catalog[t]],
         raised |-> missing # {}]

\* cls.dic_filesparams_dfs = None: no workbook read yet
NoWorkbook == [version |-> None, sheets |-> {}]

LoadInit ==
    /\ src_params \in [state : SourceStates, version : {1}]
    /\ dic_filesparams_dfs = NoWorkbook
    /\ dic_catalog = [t \in CatalogTables |-> None]
    /\ bln_parameters_loaded = FALSE
    /\ int_source_reads = 0
    /\ lpc = [c \in Callers |-> "idle"]
    /\ load_calls = [c \in Callers |-> 0]
    /\ load_returned = [c \in Callers |-> ""]

LoadIdle ==
    /\ src_params = [state |-> "ok", version |-> 1]
    /\ dic_filesparams_dfs = NoWorkbook
    /\ dic_catalog = <<>>
    /\ bln_parameters_loaded = FALSE
    /\ int_source_reads = 0
    /\ lpc = <<>>
    /\ load_calls = <<>>
    /\ load_returned = <<>>

\* The external source changes: a new version, in any state
SourceChanges ==
    /\ src_params.version < MaxSourceVersion
    /\ \E st \in SourceStates :
          src_params' = [state |-> st, version |-> src_params.version + 1]
    /\ UNCHANGED <<dic_filesparams_dfs, dic_catalog, bln_parameters_loaded,
                   int_source_reads, lpc, load_calls, load_returned>>
    /\ UNCHANGED load_others

\* A caller enters load_parameters (directly or through an accessor)
CallLoad(c) ==
    /\ lpc[c] = "idle"
    /\ load_calls[c] < MaxLoadCalls
    /\ lpc' = [lpc EXCEPT ![c] = "check"]
    /\ load_calls' = [load_calls EXCEPT ![c] = @ + 1]
    /\ load_returned' = [load_returned EXCEPT ![c] = ""]
    /\ UNCHANGED <<src_params, dic_filesparams_dfs, dic_catalog,
                   bln_parameters_loaded, int_source_reads>>
    /\ UNCHANGED load_others

\* if not cls.bln_parameters_loaded: ... else the call returns
CheckLoaded(c) ==
    /\ lpc[c] = "check"
    /\ IF bln_parameters_loaded
       THEN /\ lpc' = [lpc EXCEPT ![c] = "idle"]
            /\ load_returned' = [load_returned EXCEPT ![c] = "normal"]
       ELSE /\ lpc' = [lpc EXCEPT ![c] = "read"]
            /\ UNCHANGED load_returned
    /\ UNCHANGED <<src_params, dic_filesparams_dfs, dic_catalog,
                   bln_parameters_loaded, int_source_reads, load_calls>>
    /\ UNCHANGED load_others

\* The download and pd.read_excel(sheet_name=None); an exception is caught
\* by "except Exception", a message is printed and the call returns
ReadSource(c) ==
    /\ lpc[c] = "read"
    /\ IF src_params.state = "unreachable"
       THEN /\ lpc' = [lpc EXCEPT ![c] = "idle"]
            /\ load_returned' = [load_returned EXCEPT ![c] = "normal"]
            /\ UNCHANGED <<dic_filesparams_dfs, int_source_reads>>
       ELSE /\ dic_filesparams_dfs' =
                  [version |-> src_params.version,
                   sheets |-> SheetsOfSource(src_params.state)]
            /\ int_source_reads' = int_source_reads + 1
            /\ lpc' = [lpc EXCEPT ![c] = "assign"]
            /\ UNCHANGED load_returned
    /\ UNCHANGED <<src_params, dic_catalog, bln_parameters_loaded, load_calls>>
    /\ UNCHANGED load_others

\* The assignments of the catalog tables from cls.dic_filesparams_dfs; a
\* missing sheet raises KeyError, which is caught like any other exception
AssignCatalog(c) ==
    /\ lpc[c] = "assign"
    /\ LET r == AssignTables(dic_catalog, dic_filesparams_dfs)
       IN  /\ dic_catalog' = r.catalog
           /\ IF r.raised
              THEN /\ lpc' = [lpc EXCEPT ![c] = "idle"]
                   /\ load_returned' = [load_returned EXCEPT ![c] = "normal"]
              ELSE /\ lpc' = [lpc EXCEPT ![c] = "flag"]
                   /\ UNCHANGED load_returned
    /\ UNCHANGED <<src_params, dic_filesparams_dfs, bln_parameters_loaded,
                   int_source_reads, load_calls>>
    /\ UNCHANGED load_others

\* cls.bln_parameters_loaded = True, and the call returns
SetLoaded(c) ==
    /\ lpc[c] = "flag"
    /\ bln_parameters_loaded' = TRUE
    /\ lpc' = [lpc EXCEPT ![c] = "idle"]
    /\ load_returned' = [load_returned EXCEPT ![c] = "normal"]
    /\ UNCHANGED <<src_params, dic_filesparams_dfs, dic_catalog,
                   int_source_reads, load_calls>>
    /\ UNCHANGED load_others

LoadNext ==
    \/ SourceChanges
    \/ \E c \in Callers :
          CallLoad(c) \/ CheckLoaded(c) \/ ReadSource(c) \/ AssignCatalog(c)
              \/ SetLoaded(c)

(***************************************************************************)
(* Post-processing handler: fn_handle_specific_cases as the per-sheet loop *)
(* calls it, i.e. with its two dict parameters left to their defaults, and *)
(* the summary / details split of fn_get_invoicesdfs                       *)
(***************************************************************************)
MaxHandlerCalls == 3     \* invocations of the handler

EBM_DEVICE_PURCHASES == "EBM DEVICE PURCHASES V21"
EBM_DEVICE_SALES == "EBM DEVICE SALES V21"

\* Categories handed to the handler: the two device categories and one
\* that no special case applies to
HandlerCategories == {EBM_DEVICE_PURCHASES, EBM_DEVICE_SALES, "EBM SALES V01"}

\* lst_Tin2remove, with '' for the two further filters on the criteria field
lst_Tin2remove == {"", "Tin", "tin", "TIN", "CLIENT TIN", "SUPPLIER TIN"}

\* A record of a converted device sheet: the sheet it comes from, its
\* criteria field (CLIENT TIN or SUPPLIER TIN) and whether its TRANSACTION
\* DATE is a valid date
Rec(sheet, tin, valid) == [sheet |-> sheet, tin |-> tin, valid_date |-> valid]

\* fn_get_invoicesdfs: the records whose criteria field is removed are
\* dropped; the summary takes those with a valid date, the details those
\* without
fn_get_invoicesdfs(df) ==
    LET kept == SelectSeq(df, LAMBDA rec : rec.tin \notin lst_Tin2remove)
    IN  [summary |-> SelectSeq(kept, LAMBDA rec : rec.valid_date),
         details |-> SelectSeq(kept, LAMBDA rec : ~rec.valid_date)]

\* dic[key] = value
DictSet(dic, key, value) ==
    [k \in DOMAIN dic \cup {key} |-> IF k = key THEN value ELSE dic[k]]

\* fn_handle_specific_cases(category, df) on the default dicts: the record
\* set returned, the two dicts after the call and the exception raised (""
\* when none).  An empty converted sheet is pd.DataFrame(), which has no
\* criteria column for fn_get_invoicesdfs to filter on.
fn_handle_specific_cases(category, df, dic_dfs, dic_all) ==
    IF category \in {EBM_DEVICE_PURCHASES, EBM_DEVICE_SALES} /\ df = <<>>
    THEN [df |-> df, dic_dfs |-> dic_dfs, dic_all |-> dic_all,
          raised |-> "KeyError"]
    ELSE IF category \in {EBM_DEVICE_PURCHASES, EBM_DEVICE_SALES}
    THEN LET split == fn_get_invoicesdfs(df)
         IN  [df |-> split.details,
              dic_dfs |-> IF category \notin DOMAIN dic_dfs
                          THEN DictSet(dic_dfs, category, split.summary)
                          ELSE DictSet(dic_dfs, category,
                                       dic_dfs[category] \o split.details),
              dic_all |-> DictSet(dic_all, category, split.summary),
              raised |-> ""]
    ELSE [df |-> df, dic_dfs |-> dic_dfs, dic_all |-> dic_all, raised |-> ""]

\* The converted sheets handed to invocation number n
HandlerRecordSets(n) ==
    { <<>>,
      <<Rec(n, "100", TRUE)>>,
      <<Rec(n, "100", FALSE)>>,
      <<Rec(n, "100", TRUE), Rec(n, "100", FALSE)>>,
      <<Rec(n, "TIN", TRUE), Rec(n, "100", TRUE), Rec(n, "200", FALSE)>> }

\* The default dicts are created empty when the function is defined
HandlerInit ==
    /\ dic_dfs_CustomExcelfiles = <<>>
    /\ dic_Allprocesseddatasets = <<>>
    /\ df_handled = <<>>
    /\ handler_calls = 0

HandlerIdle ==
    /\ dic_dfs_CustomExcelfiles = <<>>
    /\ dic_Allprocesseddatasets = <<>>
    /\ df_handled = <<>>
    /\ handler_calls = -1

\* df = filehandler.fn_handle_specific_cases(str_Filecategory, df); when
\* the call raises, the sheet is left without a post-processed record set
HandleSpecificCases ==
    /\ handler_calls >= 0
    /\ handler_calls < MaxHandlerCalls
    /\ \E category \in HandlerCategories,
          df \in HandlerRecordSets(handler_calls + 1) :
          LET r == fn_handle_specific_cases(category, df,
                       dic_dfs_CustomExcelfiles, dic_Allprocesseddatasets)
          IN  /\ df_handled' = IF r.raised = "" THEN r.df ELSE <<>>
              /\ dic_dfs_CustomExcelfiles' = r.dic_dfs
              /\ dic_Allprocesseddatasets' = r.dic_all
    /\ handler_calls' = handler_calls + 1
    /\ UNCHANGED handler_others

HandlerNext == HandleSpecificCases

(***************************************************************************)
(* Quick analysis engine (src/services/quick_analysis_engine.py) with the  *)
(* helpers get_numeric_columns, get_date_range and                         *)
(* ComparisonRulesManager.get_numeric_field_config of file_handler.py.     *)
(* Column names, patterns and status tags are sequences of characters, so  *)
(* that upper(), strip() and the substring test `pattern in name` work on  *)
(* characters as in the code.                                              *)
(***************************************************************************)
MaxPartners == 21     \* partners of the largest record set

lst_lowercase ==
    <<"a","b","c","d","e","f","g","h","i","j","k","l","m",
      "n","o","p","q","r","s","t","u","v","w","x","y","z">>
lst_uppercase ==
    <<"A","B","C","D","E","F","G","H","I","J","K","L","M",
      "N","O","P","Q","R","S","T","U","V","W","X","Y","Z">>

\* str.upper(), one character
upper_char(ch) ==
    IF \E i \in DOMAIN lst_lowercase : lst_lowercase[i] = ch
    THEN lst_uppercase[CHOOSE i \in DOMAIN lst_lowercase : lst_lowercase[i] = ch]
    ELSE ch

\* str.upper()
upper(str) == [i \in DOMAIN str |-> upper_char(str[i])]

\* str.strip(): leading and trailing blanks removed
strip(str) ==
    LET idx == {i \in DOMAIN str : str[i] # " "}
    IN  IF idx = {} THEN <<>>
        ELSE LET lo == CHOOSE i \in idx : \A j \in idx : i <= j
                 hi == CHOOSE i \in idx : \A j \in idx : j <= i
             IN  SubSeq(str, lo, hi)

\* Python's `pattern in str` on strings
contains(str, pattern) ==
    \E k \in 0..(Len(str) - Len(pattern)) :
        \A j \in 1..Len(pattern) : str[k + j] = pattern[j]

\* ---- column names ----
col_SUPPLIER_NAME == <<"S","U","P","P","L","I","E","R"," ","N","A","M","E">>
col_BUYER_NAME == <<"B","U","Y","E","R"," ","N","A","M","E">>
col_CLIENT_NAME == <<"C","L","I","E","N","T"," ","N","A","M","E">>
col_TOTAL_AMOUNT == <<"T","O","T","A","L"," ","A","M","O","U","N","T">>
col_PAID_AMOUNT == <<"P","A","I","D"," ","A","M","O","U","N","T">>
col_QUANTITY == <<"Q","U","A","N","T","I","T","Y">>
col_INVOICE_NUMBER ==
    <<"I","N","V","O","I","C","E"," ","N","U","M","B","E","R">>
col_TRANSACTION_DATE ==
    <<"T","R","A","N","S","A","C","T","I","O","N"," ","D","A","T","E">>
col_Duplicate_Status ==
    <<"D","u","p","l","i","c","a","t","e"," ","S","t","a","t","u","s">>
col_YEAR == <<"Y","E","A","R">>
col_MONTH == <<"M","O","N","T","H">>
col_DAY == <<"D","A","Y">>
col_YEAR_MONTH == <<"Y","E","A","R","-","M","O","N","T","H">>

\* ---- field patterns of the default configuration ----
pat_AMOUNT == <<"A","M","O","U","N","T">>
pat_VAT == <<"V","A","T">>
pat_TOTAL == <<"T","O","T","A","L">>
pat_TAXABLE == <<"T","A","X","A","B","L","E">>
pat_TAX == <<"T","A","X">>
pat_GROSS == <<"G","R","O","S","S">>
pat_NET == <<"N","E","T">>
pat_ID == <<"I","D">>
pat_LINE_NUMBER == <<"L","I","N","E"," ","N","U","M","B","E","R">>
pat_INVOICE_NUMBER ==
    <<"I","N","V","O","I","C","E"," ","N","U","M","B","E","R">>
pat_RECEIPT_NUMBER ==
    <<"R","E","C","E","I","P","T"," ","N","U","M","B","E","R">>
pat_YEAR == <<"Y","E","A","R">>
pat_MONTH == <<"M","O","N","T","H">>
pat_DAY == <<"D","A","Y">>
pat_LINE_NUMBER_underscore == <<"L","I","N","E","_","N","U","M","B","E","R">>

\* ---- status tags written by fn_check_duplicatedrecords ----
tag_NO_duplicates == <<"N","O"," ","d","u","p","l","i","c","a","t","e","s">>
tag_HAS_duplicates ==
    <<"H","A","S"," ","d","u","p","l","i","c","a","t","e","s">>
tag_IS_duplicate == <<"I","S"," ","d","u","p","l","i","c","a","t","e">>
str_NO_DUPLICATES == <<"N","O"," ","D","U","P","L","I","C","A","T","E","S">>
str_HAS_DUPLICATES ==
    <<"H","A","S"," ","D","U","P","L","I","C","A","T","E","S">>
str_DUPLICATE_STATUS ==
    <<"D","U","P","L","I","C","A","T","E"," ","S","T","A","T","U","S">>

\* ---- numeric field configuration ----
\* the default lists of get_numeric_field_config (df_numeric_config empty)
lst_default_include ==
    <<pat_AMOUNT, pat_VAT, pat_TOTAL, pat_TAXABLE, pat_TAX, pat_GROSS, pat_NET>>
lst_default_exclude ==
    <<pat_ID, pat_LINE_NUMBER, pat_INVOICE_NUMBER, pat_RECEIPT_NUMBER,
      pat_YEAR, pat_MONTH, pat_DAY, pat_LINE_NUMBER_underscore>>

ConfigRow(pattern, action) == [field_pattern |-> pattern, action |-> action]

\* FIELD_PATTERN of the rows of df_numeric_config with the given ACTION
\* (the fields are written in lower case here)
PatternsWithAction(config, action) ==
    LET rows == SelectSeq(config, LAMBDA r : r.action = action)
    IN  [i \in DOMAIN rows |-> rows[i].field_pattern]

\* ComparisonRulesManager.get_numeric_field_config: (include, exclude)
get_numeric_field_config(config) ==
    IF config = <<>>
    THEN [include |-> lst_default_include, exclude |-> lst_default_exclude]
    ELSE [include |-> PatternsWithAction(config, "INCLUDE"),
          exclude |-> PatternsWithAction(config, "EXCLUDE")]

\* the NUMERIC_FIELDS_CONFIG sheets of the model: absent (defaults apply),
\* and a sheet that includes AMOUNT and TAX and excludes the number and
\* date-part fields
NumericConfigs ==
    {<<>>,
     <<ConfigRow(pat_AMOUNT, "INCLUDE"), ConfigRow(pat_TAX, "INCLUDE"),
       ConfigRow(pat_INVOICE_NUMBER, "EXCLUDE"), ConfigRow(pat_YEAR, "EXCLUDE"),
       ConfigRow(pat_MONTH, "EXCLUDE"), ConfigRow(pat_DAY, "EXCLUDE")>>}

\* pd.api.types.is_numeric_dtype(df[col])
is_numeric_dtype(df, col) == df.dtypes[col] = "number"

\* get_numeric_columns(df, exclude_patterns): the numeric columns, in
\* column order, whose upper-cased name contains no upper-cased exclusion
\* pattern (the engine always passes its own list, never None)
get_numeric_columns(df, patterns) ==
    SelectSeq(df.columns,
        LAMBDA col :
            /\ is_numeric_dtype(df, col)
            /\ ~ \E i \in DOMAIN patterns :
                   contains(upper(col), upper(patterns[i])))

\* ---- record sets ----
\* A record set is [columns, dtypes, rows]: the column names in order, the
\* dtype of each column ("number", "object" or "datetime") and the rows,
\* each a function from the column names to the values.
EmptyFrame == [columns |-> <<>>, dtypes |-> <<>>, rows |-> <<>>]

InColumns(df, col) == \E i \in DOMAIN df.columns : df.columns[i] = col

\* df[new_col] = values: a column appended (or overwritten in place)
WithDerivedColumn(df, col, dtype, Value(_)) ==
    [columns |-> IF InColumns(df, col) THEN df.columns ELSE Append(df.columns, col),
     dtypes  |-> [c \in DOMAIN df.dtypes \cup {col} |->
                     IF c = col THEN dtype ELSE df.dtypes[c]],
     rows    |-> [i \in DOMAIN df.rows |->
                     [c \in DOMAIN df.rows[i] \cup {col} |->
                         IF c = col THEN Value(df.rows[i]) ELSE df.rows[i][c]]]]

\* df[mask]: the rows that satisfy the mask, in order
FilterRows(df, Mask(_)) ==
    [df EXCEPT !.rows = SelectSeq(df.rows, Mask)]

RECURSIVE sum_values(_)
\* Series.sum() of a sequence of numbers
sum_values(seq) ==
    IF seq = <<>> THEN 0 ELSE Head(seq) + sum_values(Tail(seq))

\* sorted(unique()): the distinct values of a set of integers, ascending
RECURSIVE sorted_values(_)
sorted_values(S) ==
    IF S = {} THEN <<>>
    ELSE LET lo == CHOOSE x \in S : \A y \in S : x <= y
         IN  <<lo>> \o sorted_values(S \ {lo})

\* fn_check_duplicatedrecords as generate_quick_analysis calls it, on a
\* record set whose category has no configured key (all the columns are
\* the key); an empty record set gives pd.DataFrame()
TagDuplicates(df) ==
    IF df.rows = <<>> THEN EmptyFrame
    ELSE LET var_duplicate_mask == DuplicatedKeepFirst(df, df.columns)
             var_all_duplicates_mask == DuplicatedKeepNone(df, df.columns)
         IN  [columns |-> Append(df.columns, col_Duplicate_Status),
              dtypes  |-> [c \in DOMAIN df.dtypes \cup {col_Duplicate_Status} |->
                              IF c = col_Duplicate_Status THEN "object"
                              ELSE df.dtypes[c]],
              rows    |-> [i \in DOMAIN df.rows |->
                  [c \in DOMAIN df.rows[i] \cup {col_Duplicate_Status} |->
                      IF c # col_Duplicate_Status THEN df.rows[i][c]
                      ELSE IF var_duplicate_mask[i] THEN tag_IS_duplicate
                      ELSE IF var_all_duplicates_mask[i] THEN tag_HAS_duplicates
                      ELSE tag_NO_duplicates]]]

\* the date columns added by generate_quick_analysis when the record set
\* has a TRANSACTION DATE: YEAR is numeric, the other three are text
AddDateColumns(df) ==
    IF ~ InColumns(df, col_TRANSACTION_DATE) THEN df
    ELSE LET y  == WithDerivedColumn(df, col_YEAR, "number",
                       LAMBDA r : r[col_TRANSACTION_DATE].year)
             m  == WithDerivedColumn(y, col_MONTH, "object",
                       LAMBDA r : r[col_TRANSACTION_DATE].month)
             d  == WithDerivedColumn(m, col_DAY, "object",
                       LAMBDA r : r[col_TRANSACTION_DATE].day)
         IN  WithDerivedColumn(d, col_YEAR_MONTH, "object",
                 LAMBDA r : <<r[col_TRANSACTION_DATE].year,
                              r[col_TRANSACTION_DATE].month>>)

\* a date as (year, month, day); DateKey orders dates
Date(y, m, d) == [year |-> y, month |-> m, day |-> d]
DateKey(dte) == dte.year * 10000 + dte.month * 100 + dte.day

\* get_date_range(df): the earliest and the latest TRANSACTION DATE, "N/A"
\* when the column or the dates are missing
get_date_range(df) ==
    IF ~ InColumns(df, col_TRANSACTION_DATE) \/ df.rows = <<>>
    THEN <<"N/A", "N/A">>
    ELSE LET dates == {df.rows[i][col_TRANSACTION_DATE] : i \in DOMAIN df.rows}
         IN  <<CHOOSE a \in dates : \A b \in dates : DateKey(a) <= DateKey(b),
               CHOOSE a \in dates : \A b \in dates : DateKey(b) <= DateKey(a)>>

col_Date_Range == <<"D","a","t","e"," ","R","a","n","g","e">>

\* QuickAnalysisEngine._generate_yearly_summary: one row per year with the
\* year's date range and the sum of each column of numeric_cols
_generate_yearly_summary(df, patterns) ==
    IF ~ InColumns(df, col_YEAR) THEN EmptyFrame
    ELSE
    LET numeric_cols == get_numeric_columns(df, patterns)
        years == sorted_values({df.rows[i][col_YEAR] : i \in DOMAIN df.rows})
        cols  == <<col_YEAR, col_Date_Range>> \o numeric_cols
    IN  IF numeric_cols = <<>> THEN EmptyFrame
        ELSE [columns |-> cols,
              dtypes  |-> [c \in {cols[i] : i \in DOMAIN cols} |->
                              IF c = col_Date_Range THEN "object" ELSE "number"],
              rows    |-> [k \in DOMAIN years |->
                  LET year_df == FilterRows(df, LAMBDA r : r[col_YEAR] = years[k])
                  IN  [c \in {cols[i] : i \in DOMAIN cols} |->
                          IF c = col_YEAR THEN years[k]
                          ELSE IF c = col_Date_Range THEN get_date_range(year_df)
                          ELSE sum_values([i \in DOMAIN year_df.rows |->
                                              year_df.rows[i][c]])]]]

\* ---- concentration ("Top-N") analysis ----
str_IS_DUPLICATE == <<"I","S"," ","D","U","P","L","I","C","A","T","E">>
str_SUPPLIER_NAME == col_SUPPLIER_NAME
str_BUYER_NAME == col_BUYER_NAME
str_CLIENT_NAME == col_CLIENT_NAME
str_CUSTOMER_NAME == <<"C","U","S","T","O","M","E","R"," ","N","A","M","E">>
str_SALES == <<"S","A","L","E","S">>
str_REVENUE == <<"R","E","V","E","N","U","E">>
grp_SALES == str_SALES
grp_COGS_EXPENSES == <<"C","O","G","S","-","E","X","P","E","N","S","E","S">>

\* a Python None where a column name is expected
NoColumn == <<>>

\* the first column whose stripped, upper-cased name is DUPLICATE STATUS
dup_col_of(df) ==
    LET hits == SelectSeq(df.columns,
                    LAMBDA col : strip(upper(col)) = str_DUPLICATE_STATUS)
    IN  IF hits = <<>> THEN NoColumn ELSE Head(hits)

\* Variant of the mask that lets every tagged record through
clean_mask_AnyStatus(status) ==
    upper(status) \in {str_NO_DUPLICATES, str_HAS_DUPLICATES, str_IS_DUPLICATE}

\* df[dup_col].str.upper().isin(['NO DUPLICATES', 'HAS DUPLICATES'])
clean_mask(status) ==
    upper(status) \in {str_NO_DUPLICATES, str_HAS_DUPLICATES}

\* df_clean: the clean records, or every record when there is no status column
df_clean_of(df) ==
    LET dup_col == dup_col_of(df)
    IN  IF dup_col # NoColumn
        THEN FilterRows(df, LAMBDA r : clean_mask(r[dup_col]))
        ELSE df

\* the tests of the three branches of the column loop
IsSupplierName(col) == contains(upper(col), str_SUPPLIER_NAME)
IsBuyerName(col) == contains(upper(col), str_BUYER_NAME)
IsClientName(col) ==
    contains(upper(col), str_CLIENT_NAME) \/ contains(upper(col), str_CUSTOMER_NAME)

\* partner_col: the loop over the columns stops at the first column that
\* passes one of the three tests
partner_col_of(df) ==
    LET hits == SelectSeq(df.columns,
                    LAMBDA col : IsSupplierName(col) \/ IsBuyerName(col)
                                    \/ IsClientName(col))
    IN  IF hits = <<>> THEN NoColumn ELSE Head(hits)

\* partner_type, set by the branch that chose the column
partner_type_of(col, group_name) ==
    IF IsSupplierName(col)
    THEN IF contains(upper(group_name), str_SALES)
            \/ contains(upper(group_name), str_REVENUE)
         THEN "Clients" ELSE "Suppliers"
    ELSE "Clients"

\* df_analysis['Total_Amount']: the row's sum over numeric_cols
Total_Amount(r, numeric_cols) ==
    sum_values([i \in DOMAIN numeric_cols |-> r[numeric_cols[i]]])

\* partner_yearly, for one year: partner -> sum of Total_Amount
partner_yearly(df, partner_col, numeric_cols, year) ==
    LET year_rows == SelectSeq(df.rows, LAMBDA r : r[col_YEAR] = year)
        partners  == {year_rows[i][partner_col] : i \in DOMAIN year_rows}
    IN  [pt \in partners |->
            LET mine == SelectSeq(year_rows, LAMBDA r : r[partner_col] = pt)
            IN  sum_values([i \in DOMAIN mine |->
                               Total_Amount(mine[i], numeric_cols)])]

\* sort_values('Total_Amount', ascending=False): the totals, largest first
RECURSIVE sort_descending(_)
sort_descending(totals) ==
    IF DOMAIN totals = {} THEN <<>>
    ELSE LET top == CHOOSE pt \in DOMAIN totals :
                        \A o \in DOMAIN totals : totals[o] <= totals[pt]
         IN  <<totals[top]>>
             \o sort_descending([o \in DOMAIN totals \ {top} |-> totals[o]])

\* head(top_n) of a sequence
head(seq, n) == SubSeq(seq, 1, IF n < Len(seq) THEN n ELSE Len(seq))

\* f'{x:.1f}' of x = num / den * 100 for den > 0, in tenths of a percent:
\* the nearest tenth, a tie going to the even tenth
format_tenths(num, den) ==
    LET x   == num * 1000
        fl  == x \div den
        rem == x - fl * den
    IN  IF 2 * rem < den THEN fl
        ELSE IF 2 * rem > den THEN fl + 1
        ELSE IF fl % 2 = 0 THEN fl ELSE fl + 1

\* (top_amount / year_total * 100) if year_total > 0 else 0, as formatted
percentage_of(top_amount, year_total) ==
    IF year_total > 0 THEN format_tenths(top_amount, year_total) ELSE 0

lst_top_n == <<5, 10, 20>>

\* Variant that reports a Top-N row for a year with fewer than N partners
top_rows_of_year_NoThreshold(year, totals) ==
    LET year_data  == sort_descending(totals)
        year_total == sum_values(year_data)
    IN  [k \in DOMAIN lst_top_n |->
            LET top_amount == sum_values(head(year_data, lst_top_n[k]))
            IN  [YEAR |-> year, top_n |-> lst_top_n[k],
                 total_amount |-> top_amount,
                 percentage |-> percentage_of(top_amount, year_total)]]

\* the rows appended to top_results for one year
top_rows_of_year(year, totals) ==
    LET year_data  == sort_descending(totals)
        year_total == sum_values(year_data)
        reported   == SelectSeq(lst_top_n, LAMBDA n : Len(year_data) >= n)
    IN  [k \in DOMAIN reported |->
            LET top_amount == sum_values(head(year_data, reported[k]))
            IN  [YEAR |-> year, top_n |-> reported[k],
                 total_amount |-> top_amount,
                 percentage |-> percentage_of(top_amount, year_total)]]

RECURSIVE concat_all(_)
concat_all(seqs) ==
    IF seqs = <<>> THEN <<>> ELSE Head(seqs) \o concat_all(Tail(seqs))

\* the {} returned when an analysis cannot be made
EmptyDict == [empty |-> TRUE, top_analysis_table |-> <<>>, partner_type |-> ""]

\* QuickAnalysisEngine._generate_top_analysis
_generate_top_analysis(df, group_name, patterns) ==
    IF ~ InColumns(df, col_YEAR) THEN EmptyDict
    ELSE
    LET df_clean     == df_clean_of(df)
        numeric_cols == get_numeric_columns(df_clean, patterns)
        partner_col  == partner_col_of(df_clean)
        years == sorted_values({df_clean.rows[i][col_YEAR] :
                                   i \in DOMAIN df_clean.rows})
    IN  IF df_clean.rows = <<>> \/ df_clean.columns = <<>> THEN EmptyDict
        ELSE IF numeric_cols = <<>> THEN EmptyDict
        ELSE IF partner_col = NoColumn THEN EmptyDict
        ELSE [empty |-> FALSE,
              top_analysis_table |->
                  concat_all([k \in DOMAIN years |->
                      top_rows_of_year(years[k],
                          partner_yearly(df_clean, partner_col, numeric_cols,
                                         years[k]))]),
              partner_type |-> partner_type_of(partner_col, group_name)]

\* ---- the record sets and groups of the model ----
\* the partner columns of a layout: up to two of the three, in any order
PartnerColumns == {col_SUPPLIER_NAME, col_BUYER_NAME, col_CLIENT_NAME}
PartnerLayouts ==
    {<<>>} \cup {<<a>> : a \in PartnerColumns}
           \cup {<<p[1], p[2]>> : p \in {q \in PartnerColumns \X PartnerColumns :
                                             q[1] # q[2]}}

\* the other columns of a layout
ValueLayouts ==
    {<<col_TOTAL_AMOUNT, col_QUANTITY, col_INVOICE_NUMBER, col_TRANSACTION_DATE>>,
     <<col_TOTAL_AMOUNT, col_PAID_AMOUNT, col_TRANSACTION_DATE>>,
     <<col_TOTAL_AMOUNT, col_QUANTITY>>}

\* the layout of a purchase register
PurchaseLayout ==
    <<col_SUPPLIER_NAME, col_TOTAL_AMOUNT, col_QUANTITY, col_INVOICE_NUMBER,
      col_TRANSACTION_DATE>>

\* every partner layout with the value columns of the purchase register,
\* and the supplier alone with each value layout
QAColumnLayouts ==
    {pl \o Tail(PurchaseLayout) : pl \in PartnerLayouts}
    \cup {<<col_SUPPLIER_NAME>> \o vl : vl \in ValueLayouts}

dtype_of(col) ==
    IF col \in PartnerColumns THEN "object"
    ELSE IF col = col_TRANSACTION_DATE THEN "datetime"
    ELSE "number"

AmountShapes == {"equal", "rising", "credit"}
ExtraRows == {"none", "repeated", "next year"}
PartnerCounts == {0, 4, 5, 10, 16, 19, 20, MaxPartners}
FewPartners == {0, 1, 5}

\* the (layout, partner count) pairs: every layout with few partners, the
\* purchase register with every count
QAShapes ==
    (QAColumnLayouts \X FewPartners) \cup ({PurchaseLayout} \X PartnerCounts)

\* the invoice amount of partner i
amount_of(shape, i) ==
    CASE shape = "equal"  -> 100
      [] shape = "rising" -> 10 * i
      [] shape = "credit" -> -100

\* one invoice of partner i: the supplier is the partner, the buyers are
\* three, the client is one
invoice_row(cols, shape, i, year, amount) ==
    [c \in {cols[k] : k \in DOMAIN cols} |->
        CASE c = col_SUPPLIER_NAME    -> i
          [] c = col_BUYER_NAME       -> 100 + (i % 3)
          [] c = col_CLIENT_NAME      -> 200
          [] c = col_TOTAL_AMOUNT     -> amount
          [] c = col_PAID_AMOUNT      -> amount
          [] c = col_QUANTITY         -> 1
          [] c = col_INVOICE_NUMBER   -> 1000 + i
          [] c = col_TRANSACTION_DATE -> Date(year, 1 + (i % 12), 1 + (i % 28))]

\* n partners with one invoice each in 2024, then the extra row: the
\* invoice of partner 1 once more, or an invoice of partner 1 in 2025
record_set(cols, n, shape, extra) ==
    LET base == [i \in 1..n |->
                    invoice_row(cols, shape, i, 2024, amount_of(shape, i))]
        more == IF n = 0 \/ extra = "none" THEN <<>>
                ELSE IF extra = "repeated" THEN <<base[1]>>
                ELSE <<invoice_row(cols, shape, 1, 2025, 50)>>
    IN  [columns |-> cols,
         dtypes  |-> [c \in {cols[k] : k \in DOMAIN cols} |-> dtype_of(c)],
         rows    |-> base \o more]

GroupNames == {grp_SALES, grp_COGS_EXPENSES}

\* the engine after construction: the exclusion list is taken from the
\* configuration, the inclusion list is dropped (`_, self.exclude_patterns`)
QAInit ==
    /\ df_numeric_config \in NumericConfigs
    /\ exclude_patterns = get_numeric_field_config(df_numeric_config).exclude
    /\ qa_group_name = <<>>
    /\ qa_df = EmptyFrame
    /\ yearly_summary = EmptyFrame
    /\ top_analysis = EmptyDict
    /\ qa_calls = 0

QAIdle ==
    /\ df_numeric_config = <<>>
    /\ exclude_patterns = <<>>
    /\ qa_group_name = <<>>
    /\ qa_df = EmptyFrame
    /\ yearly_summary = EmptyFrame
    /\ top_analysis = EmptyDict
    /\ qa_calls = -1

\* generate_quick_analysis on one group with one category: the pass of the
\* category loop, that is duplicate detection, the date columns, then
\* _analyze_single_category
AnalyzeCategory ==
    /\ qa_calls = 0
    /\ \E group_name \in GroupNames, sh \in QAShapes,
          shape \in AmountShapes, extra \in ExtraRows :
          \E df_with_dups \in
                 {AddDateColumns(TagDuplicates(
                      record_set(sh[1], sh[2], shape, extra)))} :
              /\ qa_group_name' = group_name
              /\ qa_df' = df_with_dups
              /\ yearly_summary' =
                     _generate_yearly_summary(df_with_dups, exclude_patterns)
              /\ top_analysis' =
                     _generate_top_analysis(df_with_dups, group_name,
                                            exclude_patterns)
    /\ qa_calls' = qa_calls + 1
    /\ UNCHANGED <<df_numeric_config, exclude_patterns>>
    /\ UNCHANGED qa_others

QANext == AnalyzeCategory

(***************************************************************************)
(* Category comparison: cls_Comparison.fn_compare_non_numeric_fields and   *)
(* the page code that calls it (src/components/comparison.py).  A value of *)
(* a text field is a word, a number or a null; words are named by their    *)
(* rank in the alphabet, and the text of a number is not the text of a     *)
(* word.                                                                   *)
(***************************************************************************)
MaxValues == 12      \* distinct values of the longest modelled field

IntValue(k) == [type |-> "int", v |-> k]
StrValue(k) == [type |-> "str", v |-> k]
NullValue == [type |-> "null", v |-> 0]

\* set(df[field].dropna().unique())
unique_values(col) == {col[i] : i \in DOMAIN col} \ {NullValue}

\* sorted() can order a set when its members are of one type
IsSortable(S) == \A a \in S, b \in S : a.type = b.type

RECURSIVE sorted_set(_)
\* sorted(S) for a set of values of one type
sorted_set(S) ==
    IF S = {} THEN <<>>
    ELSE LET lo == CHOOSE a \in S : \A b \in S : a.v <= b.v
         IN  <<lo>> \o sorted_set(S \ {lo})

\* str(value)
str_of(value) == [text |-> IF value.type = "int" THEN "digits" ELSE "word",
                  v |-> value.v]

\* ', '.join(map(str, sorted(S)[:10])) + '... (+n more)': the items of the
\* joined text and the count announced after them (0 when none is)
display_form(S) ==
    LET lst == sorted_set(S)
        shown == SubSeq(lst, 1, IF Len(lst) < 10 THEN Len(lst) ELSE 10)
    IN  [items |-> [i \in DOMAIN shown |-> str_of(shown[i])],
         more  |-> IF Cardinality(S) > 10 THEN Cardinality(S) - 10 ELSE 0]

\* '; '.join(map(str, sorted(S))): the items of the joined text
full_form(S) ==
    LET lst == sorted_set(S)
    IN  [i \in DOMAIN lst |-> str_of(lst[i])]

\* a dict literal: the pairs are stored in order, a repeated key keeps
\* the last value
RECURSIVE dict_of(_)
dict_of(pairs) ==
    IF pairs = <<>> THEN <<>>
    ELSE LET last == pairs[Len(pairs)]
         IN  DictSet(dict_of(SubSeq(pairs, 1, Len(pairs) - 1)), last[1], last[2])

\* the None returned when the body raises
NoResult == [none |-> TRUE, dict |-> <<>>]

\* fn_compare_non_numeric_fields on the two field columns: the result
\* dict (without its two field-name entries), or None when sorted() raises
\* on values of different types
fn_compare_non_numeric_fields(c1, c2, name1, name2) ==
    LET set_cat1 == unique_values(c1)
        set_cat2 == unique_values(c2)
        missing_in_cat2 == set_cat1 \ set_cat2
        missing_in_cat1 == set_cat2 \ set_cat1
    IN  IF ~ IsSortable(missing_in_cat2) \/ ~ IsSortable(missing_in_cat1)
        THEN NoResult
        ELSE [none |-> FALSE,
              dict |-> dict_of(<<
                <<<<"Aggregation Function">>, "count distinct">>,
                <<<<"Value", name1>>, Cardinality(set_cat1)>>,
                <<<<"Value", name2>>, Cardinality(set_cat2)>>,
                <<<<"Difference">>, Cardinality(set_cat1) - Cardinality(set_cat2)>>,
                <<<<"Missing in", name2>>, display_form(missing_in_cat2)>>,
                <<<<"Missing in", name1>>, display_form(missing_in_cat1)>>,
                <<<<"Full_Missing in", name2>>, full_form(missing_in_cat2)>>,
                <<<<"Full_Missing in", name1>>, full_form(missing_in_cat1)>> >>)]

\* ---- the fields of the model ----
category_names == {"EBM SALES", "EBM PURCHASES"}

FieldExtras == {"none", "null", "word", "repeat"}

\* a text field: the values lo..hi of one type, then nothing, a null, a
\* word or the first value once more
field_column(type, lo, hi, extra) ==
    LET base == [i \in 1..(hi - lo + 1) |->
                    IF type = "int" THEN IntValue(lo + i - 1)
                    ELSE StrValue(lo + i - 1)]
    IN  CASE extra = "none"   -> base
          [] extra = "null"   -> base \o <<NullValue>>
          [] extra = "word"   -> base \o <<StrValue(MaxValues + 1)>>
          [] extra = "repeat" -> IF base = <<>> THEN base ELSE base \o <<base[1]>>

\* the first field runs from 1 to any length; the second is empty, short,
\* shifted or long
FirstFields ==
    {field_column(t, 1, hi, x) :
        t \in {"int", "str"}, hi \in 0..MaxValues, x \in FieldExtras}
SecondFields ==
    {field_column(t, r[1], r[2], x) :
        t \in {"int", "str"},
        r \in {<<1, 0>>, <<1, 2>>, <<2, MaxValues>>, <<1, MaxValues>>},
        x \in {"none", "word"}}

CmpInit ==
    /\ cat1_name \in category_names
    /\ cat2_name \in category_names \ {cat1_name}
    /\ col_cat1 \in FirstFields
    /\ col_cat2 \in SecondFields
    /\ comp_res = NoResult
    /\ comp_txt = <<>>
    /\ cmp_calls = 0

CmpIdle ==
    /\ cat1_name = ""
    /\ cat2_name = ""
    /\ col_cat1 = <<>>
    /\ col_cat2 = <<>>
    /\ comp_res = NoResult
    /\ comp_txt = <<>>
    /\ cmp_calls = -1

\* GENERATE COMPARISON with one pair of text fields: the result is kept
\* when it is not None
GenerateComparison ==
    /\ cmp_calls = 0
    /\ \E res \in {fn_compare_non_numeric_fields(col_cat1, col_cat2,
                                                 cat1_name, cat2_name)} :
          /\ comp_res' = res
          /\ comp_txt' = IF res.none THEN comp_txt ELSE Append(comp_txt, res.dict)
    /\ cmp_calls' = 1
    /\ UNCHANGED <<cat1_name, cat2_name, col_cat1, col_cat2>>
    /\ UNCHANGED cmp_others

CmpNext == GenerateComparison

(***************************************************************************)
(* Record-set transforms that fn_handle_specific_cases applies to the      *)
(* record set of a sheet, by category (src/utils/file_handler.py).  Each   *)
(* action is the handler's branch for one kind of category, applied to a   *)
(* record set of that kind; rows are functions from column names to values.*)
(***************************************************************************)
MaxSaleRows == 2     \* rows of a sales-details record set

\* ---- fn_exchange_negativesign ----
Abs(x) == IF x < 0 THEN -x ELSE x

\* fn_process_exchange(row): a negative `from` value becomes its absolute
\* value and the `to` value becomes minus its absolute value
fn_process_exchange(row, str_fromcolumn, str_tocolumn) ==
    IF row[str_fromcolumn] < 0
    THEN [row EXCEPT ![str_fromcolumn] = Abs(row[str_fromcolumn]),
                     ![str_tocolumn] = -Abs(row[str_tocolumn])]
    ELSE row

\* df.apply(fn_process_exchange, axis=1) written back to the two columns
fn_exchange_negativesign(df, str_fromcolumn, str_tocolumn) ==
    [i \in DOMAIN df |->
        fn_process_exchange(df[i], str_fromcolumn, str_tocolumn)]

SaleAmounts == {-2, -1, 0, 3}
SaleRows == [{"UNIT PRICE", "QUANTITY"} -> SaleAmounts]
SalesDetails == SeqUpTo(SaleRows, MaxSaleRows)

\* the branch for 'EBM BO SALES DETAILS V20' / 'V21'
ExchangeNegativeSign ==
    /\ tr_calls = 0
    /\ \E df \in SalesDetails :
          /\ df_in' = df
          /\ df_out' = fn_exchange_negativesign(df, "UNIT PRICE", "QUANTITY")
    /\ tr_op' = "fn_exchange_negativesign"
    /\ tr_calls' = 1
    /\ UNCHANGED tr_others

\* ---- fn_calculate_refund_status ----
MaxRefundRows == 3   \* rows of a Z-report details record set

\* the sum of a column over the rows of a sequence
RECURSIVE sum_column(_, _)
sum_column(rows, col) ==
    IF rows = <<>> THEN 0 ELSE Head(rows)[col] + sum_column(Tail(rows), col)

\* Step 2: the totals of the row's MRC NUMBER, merged into every row
WithMrcTotals(df) ==
    [i \in DOMAIN df |->
        LET same == SelectSeq(df, LAMBDA r : r["MRC NUMBER"] = df[i]["MRC NUMBER"])
        IN  [c \in DOMAIN df[i] \cup {"VAT AMOUNT_by_MRC NUMBER",
                                      "AMOUNT VAT INCLUDED_by_MRC NUMBER"} |->
                CASE c = "VAT AMOUNT_by_MRC NUMBER" -> sum_column(same, "VAT AMOUNT")
                  [] c = "AMOUNT VAT INCLUDED_by_MRC NUMBER" ->
                         sum_column(same, "AMOUNT VAT INCLUDED")
                  [] OTHER -> df[i][c]]]

\* Step 3
lst_matching_columns ==
    <<"ITEM CODE", "ITEM NAME", "QUANTITY", "UNIT PRICE", "BUYER TIN", "SDC ID",
      "VAT AMOUNT", "AMOUNT VAT INCLUDED", "VAT AMOUNT_by_MRC NUMBER",
      "AMOUNT VAT INCLUDED_by_MRC NUMBER">>

\* the values of a row on the matching columns
MatchingTuple(row) ==
    [k \in DOMAIN lst_matching_columns |-> row[lst_matching_columns[k]]]

\* the positions of the rows of an operation type, in row order
RowsOfType(df, type) ==
    SelectSeq([i \in DOMAIN df |-> i], LAMBDA i : df[i]["OPERATION TYPE"] = type)

\* Step 6: the inner merge of the NR rows with the NS rows on the matching
\* columns, as pairs (position of the NR row, position of the NS row): the
\* NR rows in order, each with its NS matches in order
RECURSIVE MergePairs(_, _, _)
MergePairs(df, nr, ns) ==
    IF nr = <<>> THEN <<>>
    ELSE LET hits == SelectSeq(ns, LAMBDA j :
                         MatchingTuple(df[j]) = MatchingTuple(df[Head(nr)]))
         IN  [k \in DOMAIN hits |-> <<Head(nr), hits[k]>>]
             \o MergePairs(df, Tail(nr), ns)

\* Steps 7 and 8: Rank_NR is the rank of a pair among the pairs of its
\* matching tuple; the pairs of rank 1 are kept
FirstOfGroup(df, merged) ==
    SelectSeq([k \in DOMAIN merged |-> k], LAMBDA k :
        ~ \E h \in 1..(k - 1) :
              MatchingTuple(df[merged[h][1]]) = MatchingTuple(df[merged[k][1]]))

\* fn_calculate_refund_status: the record set with its two totals and its
\* REFUND STATUS ("None" where no step assigns one)
fn_calculate_refund_status(df_raw) ==
    LET df     == WithMrcTotals(df_raw)
        nr     == RowsOfType(df, "NR")
        ns     == RowsOfType(df, "NS")
        merged == MergePairs(df, nr, ns)
        kept   == FirstOfGroup(df, merged)
        ns_matched_indices ==
            {df[merged[kept[k]][2]]["RECEIPT NUMBER (SDC)"] : k \in DOMAIN kept}
        matched_nr == {merged[kept[k]][1] : k \in DOMAIN kept}
        status(i) ==
            IF df[i]["OPERATION TYPE"] = "NR" /\ i \notin matched_nr
                THEN "REFUND NO MATCH"                               \* step 11
            ELSE IF df[i]["RECEIPT NUMBER (SDC)"] \in ns_matched_indices
                THEN "REFUNDED"                                      \* step 9
            ELSE IF df[i]["OPERATION TYPE"] = "NS" THEN "NORMAL SALE" \* step 10
            ELSE IF df[i]["OPERATION TYPE"] = "NR" THEN "REFUND"     \* step 1
            ELSE "None"
    IN  [i \in DOMAIN df |->
            [c \in DOMAIN df[i] \cup {"REFUND STATUS"} |->
                IF c = "REFUND STATUS" THEN status(i) ELSE df[i][c]]]

\* a line of a Z-report: the operation, the item, the machine and the
\* receipt vary, the other fields are those of one product sold to one
\* buyer
ZReportRow(op, item, mrc, receipt) ==
    [c \in {"OPERATION TYPE", "ITEM CODE", "ITEM NAME", "QUANTITY", "UNIT PRICE",
            "BUYER TIN", "SDC ID", "VAT AMOUNT", "AMOUNT VAT INCLUDED",
            "MRC NUMBER", "RECEIPT NUMBER (SDC)"} |->
        CASE c = "OPERATION TYPE" -> op
          [] c = "ITEM CODE" -> item
          [] c = "ITEM NAME" -> item
          [] c = "QUANTITY" -> 1
          [] c = "UNIT PRICE" -> 100
          [] c = "BUYER TIN" -> "100"
          [] c = "SDC ID" -> "SDC1"
          [] c = "VAT AMOUNT" -> 18
          [] c = "AMOUNT VAT INCLUDED" -> 118
          [] c = "MRC NUMBER" -> mrc
          [] c = "RECEIPT NUMBER (SDC)" -> receipt]

ZReportRows ==
    {ZReportRow(op, item, mrc, receipt) :
        op \in {"NS", "NR"}, item \in {"A", "B"}, mrc \in {"M1", "M2"},
        receipt \in {1, 2}}
ZReports == SeqUpTo(ZReportRows, MaxRefundRows)

\* the branch for 'EBM SALES Z-REPORT DTL V21'
CalculateRefundStatus ==
    /\ tr_calls = 0
    /\ \E df \in ZReports :
          /\ df_in' = df
          /\ df_out' = fn_calculate_refund_status(df)
    /\ tr_op' = "fn_calculate_refund_status"
    /\ tr_calls' = 1
    /\ UNCHANGED tr_others

\* ---- fn_insert_missingdates ----
MaxForexRows == 3    \* rows of a forex record set
MaxDay == 3          \* the days of the calendar, 1..MaxDay

\* a cell of the value column: a rate, or the NaN that reindex puts in a
\* row the record set did not have
Rate(x) == [isna |-> FALSE, v |-> x]
NoRate == [isna |-> TRUE, v |-> 0]

\* drop_duplicates(subset = [date] + other columns): the first row of every
\* (date, group) is kept
drop_duplicates_on_key(df) ==
    LET keep == SelectSeq([i \in DOMAIN df |-> i], LAMBDA i :
            ~ \E h \in 1..(i - 1) :
                  /\ df[h]["TRANSACTION DATE"] = df[i]["TRANSACTION DATE"]
                  /\ df[h]["CURRENCY"] = df[i]["CURRENCY"])
    IN  [k \in DOMAIN keep |-> df[keep[k]]]

\* index.get_level_values(col).unique(): the values in order of first
\* appearance
RECURSIVE unique_in_order(_, _)
unique_in_order(df, col) ==
    IF df = <<>> THEN <<>>
    ELSE LET init == unique_in_order(SubSeq(df, 1, Len(df) - 1), col)
             x    == df[Len(df)][col]
         IN  IF x \in Range(init) THEN init ELSE Append(init, x)

\* pd.date_range(start = min, end = max, freq = 'D') over the whole date
\* level
var_datesfullrange(df) ==
    LET days == {df[i]["TRANSACTION DATE"] : i \in DOMAIN df}
        lo   == CHOOSE d \in days : \A e \in days : d <= e
        hi   == CHOOSE d \in days : \A e \in days : e <= d
    IN  [k \in 1..(hi - lo + 1) |-> lo + k - 1]

\* reindex(MultiIndex.from_product([dates] + [unique values])): one row per
\* (day, group), the days outermost; a row the record set has keeps its
\* value, every other row is NaN
reindex_product(df, dates, groups) ==
    [k \in 1..(Len(dates) * Len(groups)) |->
        LET d    == dates[((k - 1) \div Len(groups)) + 1]
            g    == groups[((k - 1) % Len(groups)) + 1]
            hits == {i \in DOMAIN df : /\ df[i]["TRANSACTION DATE"] = d
                                       /\ df[i]["CURRENCY"] = g}
        IN  [c \in {"TRANSACTION DATE", "CURRENCY", "RATE"} |->
                CASE c = "TRANSACTION DATE" -> d
                  [] c = "CURRENCY" -> g
                  [] c = "RATE" -> IF hits = {} THEN NoRate
                                   ELSE df[CHOOSE i \in hits : TRUE]["RATE"]]]

\* DataFrame.ffill: a NaN takes the value of the row above it, whatever the
\* index of that row
RECURSIVE ffill(_)
ffill(df) ==
    IF df = <<>> THEN <<>>
    ELSE LET init == ffill(SubSeq(df, 1, Len(df) - 1))
             last == df[Len(df)]
         IN  IF last["RATE"].isna /\ init # <<>>
             THEN Append(init, [last EXCEPT !["RATE"] = init[Len(init)]["RATE"]])
             ELSE Append(init, last)

fn_insert_missingdates(df_raw) ==
    LET df == drop_duplicates_on_key(df_raw)
    IN  ffill(reindex_product(df, var_datesfullrange(df),
                              unique_in_order(df, "CURRENCY")))

ForexRow(d, g, x) ==
    [c \in {"TRANSACTION DATE", "CURRENCY", "RATE"} |->
        CASE c = "TRANSACTION DATE" -> d
          [] c = "CURRENCY" -> g
          [] c = "RATE" -> Rate(x)]
ForexRows == {ForexRow(d, g, x) : d \in 1..MaxDay, g \in {"USD", "EUR"}, x \in {1, 2}}
\* a forex sheet has at least one row
ForexSheets == SeqUpTo(ForexRows, MaxForexRows) \ {<<>>}

\* the branch for 'BNR FOREX V01' and 'BNR FOREX V02'; the currency is the
\* one column of dtype object besides the excluded ones
InsertMissingDates ==
    /\ tr_calls = 0
    /\ \E df \in ForexSheets :
          /\ df_in' = df
          /\ df_out' = fn_insert_missingdates(df)
    /\ tr_op' = "fn_insert_missingdates"
    /\ tr_calls' = 1
    /\ UNCHANGED tr_others

\* ---- fn_get_invoicesdfs, row by row ----
MaxSplitRows == 3    \* rows of a converted device sheet

\* a cell of a converted sheet: a text, a datetime (its day as text), an
\* integer too large for an Excel serial date, or NaN
TextCell(t) == [kind |-> "str", s |-> t]
DatetimeCell(d) == [kind |-> "datetime", s |-> d]
BigIntCell == [kind |-> "int", s |-> "5000000"]
NanCell == [kind |-> "nan", s |-> ""]

\* the texts pd.to_datetime reads as a date
DateTexts_to_datetime == {"2024-01-05", "1900-01-01"}

\* pd.to_datetime(var_date): ok is FALSE when ValueError is raised; an
\* integer is a count of nanoseconds since 1970-01-01
to_datetime(var_date) ==
    CASE var_date.kind = "datetime" -> [ok |-> TRUE, day |-> var_date.s]
      [] var_date.kind = "int" -> [ok |-> TRUE, day |-> "1970-01-01"]
      [] var_date.kind = "nan" -> [ok |-> TRUE, day |-> "NaT"]
      [] var_date.kind = "str" ->
             IF var_date.s \in DateTexts_to_datetime
             THEN [ok |-> TRUE, day |-> var_date.s]
             ELSE [ok |-> FALSE, day |-> ""]

fn_is_valid_date(var_date) ==
    IF var_date.kind = "str" /\ var_date.s \in {"", "NaT", "Nan", "NaN"}
    THEN FALSE
    ELSE LET dte_mydate == to_datetime(var_date)
         IN  dte_mydate.ok /\ dte_mydate.day # "1900-01-01"

\* the lists at the two call sites
lst_Tin2remove_of(category) ==
    IF category = EBM_DEVICE_PURCHASES
    THEN {"", "Tin", "tin", "TIN", "CLIENT TIN"}
    ELSE {"", "Tin", "tin", "TIN", "SUPPLIER TIN"}

\* Series.notna() & (Series != '')
var_notempty_mask(cell) == cell.kind # "nan" /\ cell # TextCell("")

\* Variant whose details mask does not look at the date
var_combined_mask_NoDate(row) == var_notempty_mask(row.tin)

\* var_notempty_mask & (~var_valid_date_mask)
var_combined_mask(row) ==
    var_notempty_mask(row.tin) /\ ~fn_is_valid_date(row.date)

\* the three filters on the criteria field: the index labels of the rows
\* that stay
kept_index(df, lst) ==
    SelectSeq([i \in DOMAIN df |-> i], LAMBDA i :
        /\ ~(df[i].tin.kind = "str" /\ df[i].tin.s \in lst)
        /\ df[i].tin.kind # "nan"
        /\ df[i].tin # TextCell(""))

\* the index labels of df_Invoicesummary and of df_Invoicedetails; the
\* steps after the two masks rename, add and fill columns and keep the rows
invoices_index(df, lst) ==
    LET kept == kept_index(df, lst)
    IN  [summary |-> SelectSeq(kept, LAMBDA i : fn_is_valid_date(df[i].date)),
         details |-> SelectSeq(kept, LAMBDA i : var_combined_mask(df[i]))]

SplitTinCells == {TextCell(""), TextCell("CLIENT TIN"), TextCell("100"), NanCell}
SplitDateCells ==
    {TextCell(""), TextCell("ITEM X"), DatetimeCell("2024-01-05"),
     DatetimeCell("1900-01-01"), BigIntCell}
DeviceSheets == SeqUpTo([tin : SplitTinCells, date : SplitDateCells], MaxSplitRows)

\* the call of fn_get_invoicesdfs for a device sheet
GetInvoicesDfs ==
    /\ tr_calls = 0
    /\ \E category \in {EBM_DEVICE_PURCHASES, EBM_DEVICE_SALES}, df \in DeviceSheets :
          /\ df_in' = df
          /\ df_out' = invoices_index(df, lst_Tin2remove_of(category))
          /\ tr_op' = category
    /\ tr_calls' = 1
    /\ UNCHANGED tr_others

\* ---- fn_calculate_tradescategory ----
MaxTradeRows == 3    \* rows of a record set of the RRAdsc group

\* Series.nunique() of a column
nunique(df, col) == Cardinality({df[i][col] : i \in DOMAIN df})

\* df[col] = value on every row
AssignColumns(df, category, group) ==
    [i \in DOMAIN df |->
        [c \in DOMAIN df[i] \cup {"TRANSACTION CATEGORY", "FINANCIAL STATEMENT GROUP"} |->
            CASE c = "TRANSACTION CATEGORY" -> category
              [] c = "FINANCIAL STATEMENT GROUP" -> group
              [] OTHER -> df[i][c]]]

fn_calculate_tradescategory(df_raw, columns) ==
    LET df == SelectSeq(df_raw, LAMBDA r : r["TRANSACTION DATE"] # "")
    IN  IF "SUPPLIER TIN" \in columns /\ "CLIENT TIN" \in columns
        THEN IF nunique(df, "SUPPLIER TIN") = 1
                 THEN AssignColumns(df, "SALES", "SALES")
             ELSE IF nunique(df, "CLIENT TIN") = 1
                 THEN AssignColumns(df, "PURCHASES", "COGS-EXPENSES")
             ELSE df
        ELSE AssignColumns(df, "UNKNOWN", "UNKNOWN")

\* the records of a trades file: the date is a date or the empty text that
\* an empty cell is read as, the TINs are those of three taxpayers
TradeRow(date, supplier, client) ==
    [c \in {"TRANSACTION DATE", "SUPPLIER TIN", "CLIENT TIN"} |->
        CASE c = "TRANSACTION DATE" -> date
          [] c = "SUPPLIER TIN" -> supplier
          [] c = "CLIENT TIN" -> client]
TradeRows ==
    {TradeRow(date, supplier, client) :
        date \in {"2024-01-05", ""}, supplier \in {"100", "200"},
        client \in {"100", "300"}}
\* a record set of the group without the two TIN columns
DatedRows == [{"TRANSACTION DATE"} -> {"2024-01-05", ""}]
TradeSheets ==
    (SeqUpTo(TradeRows, MaxTradeRows) \cup SeqUpTo(DatedRows, MaxTradeRows)) \ {<<>>}

\* the branch for the categories of the group 'RRAdsc'
CalculateTradesCategory ==
    /\ tr_calls = 0
    /\ \E df \in TradeSheets :
          /\ df_in' = df
          /\ df_out' = fn_calculate_tradescategory(df, DOMAIN df[1])
    /\ tr_op' = "fn_calculate_tradescategory"
    /\ tr_calls' = 1
    /\ UNCHANGED tr_others

TrInit ==
    /\ tr_op = ""
    /\ df_in = <<>>
    /\ df_out = <<>>
    /\ tr_calls = 0

TrIdle ==
    /\ tr_op = ""
    /\ df_in = <<>>
    /\ df_out = <<>>
    /\ tr_calls = -1

TrNext ==
    \/ ExchangeNegativeSign
    \/ CalculateRefundStatus
    \/ InsertMissingDates
    \/ GetInvoicesDfs
    \/ CalculateTradesCategory

(***************************************************************************)
(* Global analysis orchestrator                                            *)
(* (src/services/global_analysis_orchestrator.py): run_analysis and        *)
(* _execute_stages on one GlobalAnalysisOrchestrator                       *)
(***************************************************************************)
MaxRuns == 2         \* calls of run_analysis on the same orchestrator
MaxOrchFiles == 2    \* files of the file metadata

\* the stage lists of run_analysis
stages_of(analysis_depth) ==
    CASE analysis_depth = "quick" ->
             <<"_stage_validate_data", "_stage_quick_summary",
               "_stage_duplicate_analysis", "_stage_top_analysis",
               "_stage_finalize">>
      [] analysis_depth = "standard" ->
             <<"_stage_validate_data", "_stage_quick_summary",
               "_stage_duplicate_analysis", "_stage_monthly_analysis",
               "_stage_top_analysis", "_stage_finalize">>
      [] OTHER ->
             <<"_stage_validate_data", "_stage_quick_summary",
               "_stage_duplicate_analysis", "_stage_monthly_analysis",
               "_stage_top_analysis", "_stage_detailed_reports",
               "_stage_finalize">>

\* self.results as __init__ builds it; quick_summary {} is None, and the
\* key total_duplicates is absent (None) until the duplicate stage sets it
InitialResults ==
    [files_processed |-> <<>>, categories_found |-> <<>>, groups_found |-> <<>>,
     total_records |-> 0, analysis_depth |-> "", status |-> "initialized",
     total_duplicates |-> None, quick_summary |-> None, validated |-> FALSE,
     errors |-> <<>>]

\* One pass of the sheet loop of _stage_validate_data on a sheet entry.
\* st is the metadata together with the local validation dict (v_categories,
\* v_groups); an entry without its sixth element raises IndexError at
\* "df = sheet_data[5]".
ValidateSheet(st, sheet) ==
    IF st.raised # "" THEN st
    ELSE IF sheet.entry_len < 6 THEN [st EXCEPT !.raised = "IndexError"]
    ELSE LET new_cat == sheet.category \notin st.v_categories
                            /\ Upper(sheet.category) # UNKNOWN
             new_grp == sheet.group # "" /\ sheet.group \notin st.v_groups
         IN  [st EXCEPT
                !.v_categories = IF new_cat THEN @ \cup {sheet.category} ELSE @,
                !.categories_found = IF new_cat THEN Append(@, sheet.category) ELSE @,
                !.v_groups = IF new_grp THEN @ \cup {sheet.group} ELSE @,
                !.groups_found = IF new_grp THEN Append(@, sheet.group) ELSE @,
                !.total_records = @ + sheet.records]

RECURSIVE ValidateSheets(_, _)
ValidateSheets(st, sheets) ==
    IF sheets = <<>> THEN st
    ELSE ValidateSheets(ValidateSheet(st, Head(sheets)), Tail(sheets))

\* the file loop: the file name is appended, then the sheets are visited
RECURSIVE ValidateFiles(_, _)
ValidateFiles(st, files) ==
    IF files = <<>> \/ st.raised # "" THEN st
    ELSE ValidateFiles(
             ValidateSheets([st EXCEPT !.files_processed = Append(@, Head(files).name)],
                            Head(files).sheets),
             Tail(files))

\* _stage_validate_data: the results after the stage and the exception it
\* raised ("" when none); what the stage appended before it raised stays
_stage_validate_data(res, metadata) ==
    LET st == ValidateFiles(
                  [files_processed |-> res.files_processed,
                   categories_found |-> res.categories_found,
                   groups_found |-> res.groups_found,
                   total_records |-> res.total_records,
                   v_categories |-> {}, v_groups |-> {}, raised |-> ""],
                  metadata)
    IN  [results |-> [res EXCEPT !.files_processed = st.files_processed,
                                 !.categories_found = st.categories_found,
                                 !.groups_found = st.groups_found,
                                 !.total_records = st.total_records,
                                 !.validated = IF st.raised = "" THEN TRUE ELSE @],
         raised |-> st.raised]

\* _stage_quick_summary: the engine returns its results (here the number
\* of IS duplicate records it counted) or raises
_stage_quick_summary(res, engine) ==
    IF engine.raised # "" THEN [results |-> res, raised |-> engine.raised]
    ELSE [results |-> [res EXCEPT !.quick_summary = engine.is_duplicate],
          raised |-> ""]

\* _stage_duplicate_analysis: .get('group_summaries', {}) of an empty
\* quick summary is {}, and the total is 0
_stage_duplicate_analysis(res) ==
    [results |-> [res EXCEPT !.total_duplicates =
                      IF res.quick_summary = None THEN 0 ELSE res.quick_summary],
     raised |-> ""]

\* _stage_finalize
_stage_finalize(res) ==
    [results |-> [res EXCEPT !.status = "completed"], raised |-> ""]

\* stage_func() for the stage of the given name; the monthly, top and
\* detailed-report stages only read the results and print
CallStage(stage_name, res, metadata, engine) ==
    CASE stage_name = "_stage_validate_data" -> _stage_validate_data(res, metadata)
      [] stage_name = "_stage_quick_summary" -> _stage_quick_summary(res, engine)
      [] stage_name = "_stage_duplicate_analysis" -> _stage_duplicate_analysis(res)
      [] stage_name = "_stage_finalize" -> _stage_finalize(res)
      [] OTHER -> [results |-> res, raised |-> ""]

\* Variant in which the exception of a stage ends the loop
NextStageAbortOnRaise(i, raised, lst) == IF raised # "" THEN Len(lst) + 1 ELSE i + 1

\* the try/except lies inside the loop body: the loop goes on with the
\* next stage whatever the outcome of stage i
NextStage(i, raised, lst) == i + 1

\* has_errors()
has_errors(res) == Len(res.errors) > 0

\* get_summary_statistics(), the four counts
get_summary_statistics(res) ==
    [total_files |-> Len(res.files_processed),
     total_groups |-> Len(res.groups_found),
     total_categories |-> Len(res.categories_found),
     total_records |-> res.total_records]

\* the entries of a sheet in the file metadata: its category, the number of
\* records of its record set and the statement group of those records (""
\* when the record set has no such column); an entry of five elements is
\* what a sheet whose conversion failed leaves behind
SheetEntry6(category, records, group) ==
    [entry_len |-> 6, category |-> category, records |-> records, group |-> group]
OrchSheetEntries ==
    {SheetEntry6("EBM SALES V01", 2, "SALES"),
     SheetEntry6("EBM PURCHASES V01", 1, "COGS-EXPENSES"),
     SheetEntry6("UNKNOWN", 1, ""),
     [entry_len |-> 5, category |-> "EBM SALES V01", records |-> 0, group |-> ""]}

\* file i of the metadata is named by its position
OrchFile(i, entry) == [name |-> i, sheets |-> <<entry>>]
OrchMetadata ==
    {[i \in DOMAIN s |-> OrchFile(i, s[i])] : s \in SeqUpTo(OrchSheetEntries, MaxOrchFiles)}

\* what the engine does when the quick summary stage calls it
EngineOutcomes ==
    {[raised |-> "", is_duplicate |-> 2], [raised |-> "Exception", is_duplicate |-> 0]}

\* GlobalAnalysisOrchestrator(file_metadata)
OrchInit ==
    /\ orch_file_metadata \in OrchMetadata
    /\ results = InitialResults
    /\ stages = <<>>
    /\ int_stage = 1
    /\ opc = "idle"
    /\ run_calls = 0
    /\ lst_executed = <<>>
    /\ lst_raised = <<>>

OrchIdle ==
    /\ orch_file_metadata = <<>>
    /\ results = InitialResults
    /\ stages = <<>>
    /\ int_stage = 1
    /\ opc = "off"
    /\ run_calls = 0
    /\ lst_executed = <<>>
    /\ lst_raised = <<>>

\* run_analysis(analysis_depth) up to the call of _execute_stages
RunAnalysis ==
    /\ opc \in {"idle", "returned"}
    /\ run_calls < MaxRuns
    /\ \E analysis_depth \in {"quick", "standard", "comprehensive"} :
          /\ results' = [results EXCEPT !.analysis_depth = analysis_depth]
          /\ stages' = stages_of(analysis_depth)
    /\ int_stage' = 1
    /\ lst_executed' = <<>>
    /\ opc' = "running"
    /\ run_calls' = run_calls + 1
    /\ UNCHANGED <<orch_file_metadata, lst_raised>>
    /\ UNCHANGED orch_others

\* one pass of the loop of _execute_stages: the stage is called, and an
\* exception it raises is appended to results['errors']
ExecuteStage ==
    /\ opc = "running"
    /\ int_stage <= Len(stages)
    /\ \E engine \in (IF stages[int_stage] = "_stage_quick_summary"
                      THEN EngineOutcomes ELSE {[raised |-> "", is_duplicate |-> 0]}) :
          LET r == CallStage(stages[int_stage], results, orch_file_metadata, engine)
          IN  /\ results' =
                    IF r.raised = "" THEN r.results
                    ELSE [r.results EXCEPT !.errors =
                             Append(@, <<stages[int_stage], r.raised>>)]
              /\ lst_raised' = IF r.raised = "" THEN lst_raised
                               ELSE Append(lst_raised, stages[int_stage])
              /\ int_stage' = NextStage(int_stage, r.raised, stages)
    /\ lst_executed' = Append(lst_executed, stages[int_stage])
    /\ UNCHANGED <<orch_file_metadata, stages, opc, run_calls>>
    /\ UNCHANGED orch_others

\* after the loop: return self.results
ReturnResults ==
    /\ opc = "running"
    /\ int_stage > Len(stages)
    /\ opc' = "returned"
    /\ UNCHANGED <<orch_file_metadata, results, stages, int_stage, run_calls,
                   lst_executed, lst_raised>>
    /\ UNCHANGED orch_others

OrchNext ==
    \/ RunAnalysis
    \/ ExecuteStage
    \/ ReturnResults

(***************************************************************************)
(* Type normalizer: fn_replace_months, fn_parse_dates_multipleformats,     *)
(* fn_apply_formats                                                        *)
(*                                                                         *)
(* A text is a sequence of tokens: runs of digits (num: value and number   *)
(* of digits), runs of letters (word: the letters in lower case, and the   *)
(* letter case the run is written in) and single other characters (sep).   *)
(***************************************************************************)
MaxFmtCalls == 2     \* calls of fn_apply_formats on the same cell

Num(val, width) ==
    [t |-> "num", txt |-> "", val |-> val, width |-> width, form |-> ""]
Word(letters, form) ==
    [t |-> "word", txt |-> letters, val |-> 0, width |-> 0, form |-> form]
Sep(ch) == [t |-> "sep", txt |-> ch, val |-> 0, width |-> 0, form |-> ""]

\* Letter cases a word can be written in: jan, Jan, JAN, jAn
Forms == {"lower", "title", "upper", "mixed"}

\* Cell values
Str(toks) == [kind |-> "str", toks |-> toks]
IntVal(n) == [kind |-> "int", n |-> n]
\* the float num / den, den a power of ten
FloatVal(num, den) == [kind |-> "float", num |-> num, den |-> den]
DateTime(y, m, d) == [kind |-> "datetime", y |-> y, m |-> m, d |-> d]
\* None, float('nan'), '', 'NaN', 'NaT'
NullLike(lit) == [kind |-> "null", lit |-> lit]
NaN == NullLike("nan")

K(letters, form, month) == [letters |-> letters, form |-> form, month |-> month]

\* dic_month_map: each key as (letters in lower case, letter case of the
\* key, month number); 'Jan': '01' is K("jan", "title", 1)
dic_month_map ==
    {
      K("jan", "title", 1), K("january", "title", 1),
      K("january", "upper", 1), K("jan", "upper", 1),
      K("mutarama", "upper", 1),
      K("feb", "title", 2), K("februar", "title", 2),
      K("february", "title", 2), K("février", "title", 2),
      K("fév", "title", 2), K("fev", "title", 2), K("febrero", "title", 2),
      K("feb", "upper", 2), K("february", "upper", 2),
      K("février", "upper", 2), K("fév", "upper", 2), K("fev", "upper", 2),
      K("febrero", "upper", 2), K("februar", "upper", 2),
      K("gashyantare", "upper", 2),
      K("mar", "title", 3), K("march", "title", 3), K("märz", "title", 3),
      K("mars", "title", 3), K("marzo", "title", 3), K("mar", "upper", 3),
      K("march", "upper", 3), K("märz", "upper", 3), K("mars", "upper", 3),
      K("marzo", "upper", 3), K("werurwe", "upper", 3),
      K("apr", "title", 4), K("april", "title", 4), K("avril", "title", 4),
      K("abril", "title", 4), K("apr", "upper", 4), K("april", "upper", 4),
      K("avril", "upper", 4), K("abril", "upper", 4), K("mata", "upper", 4),
      K("may", "title", 5), K("mai", "title", 5), K("mayo", "title", 5),
      K("may", "upper", 5), K("mai", "upper", 5), K("mayo", "upper", 5),
      K("gicurasi", "upper", 5),
      K("jun", "title", 6), K("june", "title", 6), K("juni", "title", 6),
      K("juin", "title", 6), K("junio", "title", 6), K("jun", "upper", 6),
      K("june", "upper", 6), K("juni", "upper", 6), K("juin", "upper", 6),
      K("junio", "upper", 6), K("kamena", "upper", 6),
      K("jul", "title", 7), K("july", "title", 7), K("juli", "title", 7),
      K("juillet", "title", 7), K("julio", "title", 7), K("jul", "upper", 7),
      K("july", "upper", 7), K("juli", "upper", 7), K("juillet", "upper", 7),
      K("julio", "upper", 7), K("nyakanga", "upper", 7),
      K("aug", "title", 8), K("august", "title", 8), K("août", "title", 8),
      K("agosto", "title", 8), K("aou", "title", 8), K("aug", "upper", 8),
      K("august", "upper", 8), K("août", "upper", 8),
      K("agosto", "upper", 8), K("kanama", "upper", 8),
      K("sep", "title", 9), K("september", "title", 9),
      K("septembre", "title", 9), K("sept", "title", 9),
      K("setiembre", "title", 9), K("septiembre", "title", 9),
      K("sep", "upper", 9), K("september", "upper", 9),
      K("septembre", "upper", 9), K("sept", "upper", 9),
      K("setiembre", "upper", 9), K("septiembre", "upper", 9),
      K("nzeri", "upper", 9), K("nzeli", "upper", 9),
      K("oct", "title", 10), K("october", "title", 10),
      K("oktober", "title", 10), K("octobre", "title", 10),
      K("octubre", "title", 10), K("oct", "upper", 10),
      K("october", "upper", 10), K("oktober", "upper", 10),
      K("octobre", "upper", 10), K("octubre", "upper", 10),
      K("ukwakira", "upper", 10),
      K("nov", "title", 11), K("november", "title", 11),
      K("novembre", "title", 11), K("noviembre", "title", 11),
      K("nov", "upper", 11), K("november", "upper", 11),
      K("novembre", "upper", 11), K("noviembre", "upper", 11),
      K("ugushyingo", "upper", 11),
      K("dec", "title", 12), K("december", "title", 12),
      K("dezember", "title", 12), K("décembre", "title", 12),
      K("diciembre", "title", 12), K("déc", "title", 12),
      K("dez", "title", 12), K("dic", "upper", 12), K("dec", "upper", 12),
      K("december", "upper", 12), K("dezember", "upper", 12),
      K("décembre", "upper", 12), K("déc", "upper", 12),
      K("dez", "upper", 12), K("diciembre", "upper", 12),
      K("ukuboza", "upper", 12)
    }

\* The map has a key with these letters, in some letter case
IsMonthWord(letters) == \E k \in dic_month_map : k.letters = letters

\* dic_month_map[x.group().upper()]: the month of the key written in upper
\* case, 0 when the map has no such key (KeyError)
LookupUpper(letters) ==
    IF \E k \in dic_month_map : k.letters = letters /\ k.form = "upper"
    THEN (CHOOSE k \in dic_month_map : k.letters = letters /\ k.form = "upper").month
    ELSE 0

\* The month of any key with these letters, whatever its letter case
LookupAnyCase(letters) ==
    (CHOOSE k \in dic_month_map : k.letters = letters).month

\* \b on both sides of token i: no digit or letter touches it
AtWordBoundaries(toks, i) ==
    /\ i = 1 \/ toks[i - 1].t = "sep"
    /\ i = Len(toks) \/ toks[i + 1].t = "sep"

\* Token i is matched by month_pattern (re.IGNORECASE)
MonthMatch(toks, i) ==
    /\ toks[i].t = "word"
    /\ IsMonthWord(toks[i].txt)
    /\ AtWordBoundaries(toks, i)

\* fn_replace_months: month_pattern.sub(lambda x: dic_month_map[x.group().upper()], s)
\* raised is TRUE when a lookup raises KeyError
fn_replace_months(toks) ==
    [raised |-> \E i \in DOMAIN toks :
                    MonthMatch(toks, i) /\ LookupUpper(toks[i].txt) = 0,
     toks |-> [i \in DOMAIN toks |->
                  IF MonthMatch(toks, i)
                  THEN Num(LookupUpper(toks[i].txt), 2)
                  ELSE toks[i]]]

\* The "Dates formats" parameter sheet (lst_dates_regex), in its order
Dir(d) == [t |-> "dir", txt |-> d, val |-> 0, width |-> 0, form |-> ""]

lst_dates_regex ==
    << <<Dir("%d"), Sep("-"), Dir("%m"), Sep("-"), Dir("%Y")>>,
       <<Dir("%d"), Sep("/"), Dir("%m"), Sep("/"), Dir("%Y")>>,
       <<Dir("%d"), Sep(" "), Dir("%m"), Sep(" "), Dir("%Y")>>,
       <<Dir("%Y"), Sep("-"), Dir("%m"), Sep("-"), Dir("%d")>> >>

IsLeap(y) == (y % 4 = 0 /\ y % 100 # 0) \/ y % 400 = 0

DaysInMonth(y, m) ==
    CASE m \in {4, 6, 9, 11} -> 30
      [] m = 2 -> IF IsLeap(y) THEN 29 ELSE 28
      [] OTHER -> 31

RECURSIVE StripLeft(_)
StripLeft(toks) ==
    IF toks # <<>> /\ Head(toks) = Sep(" ") THEN StripLeft(Tail(toks)) ELSE toks

RECURSIVE StripRight(_)
StripRight(toks) ==
    IF toks # <<>> /\ toks[Len(toks)] = Sep(" ")
    THEN StripRight(SubSeq(toks, 1, Len(toks) - 1))
    ELSE toks

\* str.strip()
StripText(toks) == StripRight(StripLeft(toks))

\* A text token is accepted by a token of a format
TokenFits(tok, f) ==
    CASE f.t = "sep" -> tok = f
      [] f.txt = "%d" -> tok.t = "num" /\ tok.width \in {1, 2} /\ tok.val \in 1..31
      [] f.txt = "%m" -> tok.t = "num" /\ tok.width \in {1, 2} /\ tok.val \in 1..12
      [] f.txt = "%Y" -> tok.t = "num" /\ tok.width = 4 /\ tok.val >= 1
      [] OTHER -> FALSE

FieldOf(toks, fmt, d) ==
    toks[CHOOSE i \in DOMAIN fmt : fmt[i] = Dir(d)].val

\* datetime.strptime(text.strip(), format.strip()) succeeds
StrptimeOk(text, fmt) ==
    LET toks == StripText(text)
    IN  /\ Len(toks) = Len(fmt)
        /\ \A i \in DOMAIN fmt : TokenFits(toks[i], fmt[i])
        /\ FieldOf(toks, fmt, "%d")
              <= DaysInMonth(FieldOf(toks, fmt, "%Y"), FieldOf(toks, fmt, "%m"))

Strptime(text, fmt) ==
    LET toks == StripText(text)
    IN  DateTime(FieldOf(toks, fmt, "%Y"), FieldOf(toks, fmt, "%m"),
                 FieldOf(toks, fmt, "%d"))

\* datetime(1899, 12, 30) + timedelta(days=n), n >= 0
SerialToDate(n) ==
    LET z == n + 693899
        era == z \div 146097
        doe == z - era * 146097
        yoe == (doe - doe \div 1460 + doe \div 36524 - doe \div 146096) \div 365
        doy == doe - (365 * yoe + yoe \div 4 - yoe \div 100)
        mp == (5 * doy + 2) \div 153
        d == doy - (153 * mp + 2) \div 5 + 1
        m == IF mp < 10 THEN mp + 3 ELSE mp - 9
        y == yoe + era * 400 + (IF m <= 2 THEN 1 ELSE 0)
    IN  DateTime(y, m, d)

RECURSIVE NDigits(_)
NDigits(n) == IF n < 10 THEN 1 ELSE 1 + NDigits(n \div 10)

\* str(n) for an integer n >= 0
IntText(n) == <<Num(n, NDigits(n))>>

\* str.isdigit()
IsDigitText(toks) == Len(toks) = 1 /\ toks[1].t = "num"

\* isinstance(x, (int, float)) or (isinstance(x, str) and x.isdigit())
IsNumberLike(x) ==
    \/ x.kind \in {"int", "float"}
    \/ x.kind = "str" /\ IsDigitText(x.toks)

\* int(float(x)) for such a value
IntOf(x) ==
    CASE x.kind = "int" -> x.n
      [] x.kind = "float" -> x.num \div x.den
      [] OTHER -> x.toks[1].val

\* Serial numbers below this one are read as Excel dates
ExcelSerialLimit == 2958466

\* The final "return dte_mydate": the local variable, which by then holds
\* the text after str(int(float(x))) and month substitution
ReturnUnparsed(x, text) == Str(text)

\* fn_parse_dates_multipleformats; out is the value returned, raised the
\* exception that escapes ("" when none), substituted the text after
\* fn_replace_months (<<>> when the function returns before that line)
fn_parse_dates_multipleformats(x) ==
    IF x.kind = "datetime" \/ x.kind = "null"
    THEN [out |-> x, raised |-> "", substituted |-> <<>>]
    ELSE IF IsNumberLike(x) /\ IntOf(x) < ExcelSerialLimit
    THEN [out |-> SerialToDate(IntOf(x)), raised |-> "", substituted |-> <<>>]
    ELSE LET text == IF IsNumberLike(x) THEN IntText(IntOf(x)) ELSE x.toks
             sub == fn_replace_months(text)
             fits == {f \in DOMAIN lst_dates_regex :
                         StrptimeOk(sub.toks, lst_dates_regex[f])}
             first == CHOOSE f \in fits : \A g \in fits : f <= g
         IN  IF sub.raised
             THEN [out |-> x, raised |-> "KeyError", substituted |-> <<>>]
             ELSE IF fits # {}
             THEN [out |-> Strptime(sub.toks, lst_dates_regex[first]),
                   raised |-> "", substituted |-> sub.toks]
             ELSE [out |-> ReturnUnparsed(x, sub.toks), raised |-> "",
                   substituted |-> sub.toks]

RECURSIVE JoinDigits(_)
\* The digits of a run of num tokens read as one number: <<value, digits>>
JoinDigits(toks) ==
    IF toks = <<>> THEN <<0, 0>>
    ELSE LET rest == JoinDigits(SubSeq(toks, 1, Len(toks) - 1))
             last == toks[Len(toks)]
         IN  <<rest[1] * (10 ^ last.width) + last.val, rest[2] + last.width>>

RECURSIVE Reduce(_, _)
\* num / den with the trailing zeros of the fraction dropped
Reduce(num, den) ==
    IF den > 1 /\ num % 10 = 0 THEN Reduce(num \div 10, den \div 10)
    ELSE FloatVal(num, den)

\* series.replace({",": "", "'": ""}, regex=True) on a text cell
DropSeparators(toks) ==
    SelectSeq(toks, LAMBDA tok : ~(tok.t = "sep" /\ tok.txt \in {",", "'"}))

\* pd.to_numeric(text, errors='coerce'): digits with at most one '.';
\* anything else gives NaN
ToNumericText(toks) ==
    LET dots == {i \in DOMAIN toks : toks[i] = Sep(".")}
        allnum(s) == \A i \in DOMAIN s : s[i].t = "num"
    IN  IF toks # <<>> /\ dots = {} /\ allnum(toks)
        THEN FloatVal(JoinDigits(toks)[1], 1)
        ELSE IF Cardinality(dots) = 1
        THEN LET dot == CHOOSE i \in dots : TRUE
                 whole == SubSeq(toks, 1, dot - 1)
                 frac == SubSeq(toks, dot + 1, Len(toks))
             IN  IF Len(toks) > 1 /\ allnum(whole) /\ allnum(frac)
                 THEN Reduce(JoinDigits(whole)[1] * (10 ^ JoinDigits(frac)[2])
                                + JoinDigits(frac)[1],
                             10 ^ JoinDigits(frac)[2])
                 ELSE NaN
        ELSE NaN

\* The float branch of fn_apply_formats on one cell
CoerceFloat(x) ==
    CASE x.kind = "str" -> ToNumericText(DropSeparators(x.toks))
      [] x.kind = "int" -> FloatVal(x.n, 1)
      [] x.kind = "float" -> x
      [] OTHER -> NaN

\* fn_apply_formats on one cell of a column of the given format
fn_apply_formats(format, x) ==
    CASE format = "FORMAT FLOAT" ->
            [out |-> CoerceFloat(x), raised |-> "", substituted |-> <<>>]
      [] format = "FORMAT DATE" -> fn_parse_dates_multipleformats(x)
      [] OTHER -> [out |-> x, raised |-> "", substituted |-> <<>>]

\* ---- the cells of the model ----
MonthWords ==
    {Word(l, f) : l \in {k.letters : k \in dic_month_map} \cup {"janvier", "foo"},
                  f \in Forms}

DateTexts ==
    {<<Num(d, 2), s, m, s, Num(y, 4)>> :
        d \in {15, 31}, s \in {Sep(" "), Sep("-")},
        m \in MonthWords \cup {Num(1, 2), Num(2, 2), Num(12, 1)}, y \in {2022, 2024}}

OtherTexts ==
    {<<m>> : m \in MonthWords}
    \cup {<<m, Sep(" "), Word("foo", "lower")>> : m \in MonthWords}
    \cup {<<Num(15, 2), m, Num(2022, 4)>> : m \in MonthWords}
    \cup { <<Word("n", "upper"), Sep("/"), Word("a", "upper")>>,
           <<Num(2024, 4), Sep("-"), Num(12, 2), Sep("-"), Num(31, 2)>>,
           <<Sep(" "), Num(15, 2), Sep("/"), Num(1, 2), Sep("/"), Num(2022, 4), Sep(" ")>>,
           <<Num(44197, 5)>>, <<Num(1, 2)>>, <<Num(3000000, 7)>>, <<Num(3000000, 8)>> }

DateCells ==
    {Str(t) : t \in DateTexts \cup OtherTexts}
    \cup {IntVal(n) : n \in {0, 44197, 2958465, 2958466, 3000000}}
    \cup {FloatVal(44197, 1), FloatVal(441975, 10), FloatVal(29584665, 10)}
    \cup {DateTime(2022, 1, 15)}
    \cup {NullLike(l) : l \in {"None", "nan", "", "NaN", "NaT"}}

FloatTexts ==
    { <<Num(1, 1), Sep(","), Num(234, 3), Sep("."), Num(50, 2)>>,
      <<Num(1234, 4), Sep("."), Num(5, 1)>>,
      <<Sep("'"), Num(12, 2)>>,
      <<Num(12, 2), Sep(","), Num(0, 3)>>,
      <<Num(7, 1), Sep(".")>>,
      <<Num(1, 1), Sep("."), Num(2, 1), Sep("."), Num(3, 1)>>,
      <<Word("abc", "lower")>>,
      <<Sep(",")>> }

FloatCells ==
    {Str(t) : t \in FloatTexts}
    \cup {IntVal(12), FloatVal(12345, 10), NaN, NullLike("None")}

FmtInit ==
    /\ \/ str_format = "FORMAT DATE" /\ var_raw \in DateCells
       \/ str_format = "FORMAT FLOAT" /\ var_raw \in FloatCells
    /\ var_cell = var_raw
    /\ var_before = var_raw
    /\ str_substituted = <<>>
    /\ fmt_calls = 0
    /\ fmt_raised = ""

FmtIdle ==
    /\ str_format = ""
    /\ var_raw = NaN
    /\ var_cell = NaN
    /\ var_before = NaN
    /\ str_substituted = <<>>
    /\ fmt_calls = 0
    /\ fmt_raised = ""

\* One call of fn_apply_formats on the record set holding the cell; when the
\* call raises, the record set keeps its value and the exception goes to
\* the caller
ApplyFormats ==
    /\ fmt_calls < MaxFmtCalls
    /\ fmt_raised = ""
    /\ LET r == fn_apply_formats(str_format, var_cell)
       IN  /\ var_before' = var_cell
           /\ var_cell' = r.out
           /\ fmt_raised' = r.raised
           /\ str_substituted' = r.substituted
    /\ fmt_calls' = fmt_calls + 1
    /\ UNCHANGED <<str_format, var_raw>>
    /\ UNCHANGED fmt_others

FmtNext == ApplyFormats

(***************************************************************************)
(* Specifications                                                          *)
(***************************************************************************)
\* Each specification runs one component from its initial states while the
\* other components stay idle.
\* the components added after the analysis engine stay idle
LaterIdle == CmpIdle /\ TrIdle /\ OrchIdle

OthersIdle == LoadIdle /\ HandlerIdle /\ QAIdle /\ LaterIdle

InitDup == DupInit /\ MatchIdle /\ FmtIdle /\ BatchIdle /\ OthersIdle

SpecDup == InitDup /\ [][DupNext]_vars

InitMatch == MatchInit /\ DupIdle /\ FmtIdle /\ BatchIdle /\ OthersIdle

SpecMatch == InitMatch /\ [][MatchNext]_vars

InitDate == FmtInit /\ DupIdle /\ MatchIdle /\ BatchIdle /\ OthersIdle

SpecDate == InitDate /\ [][FmtNext]_vars

InitBatch == BatchInit /\ DupIdle /\ MatchIdle /\ FmtIdle /\ OthersIdle

SpecBatch == InitBatch /\ [][BatchNext]_vars

InitLoad ==
    /\ LoadInit /\ DupIdle /\ MatchIdle /\ FmtIdle /\ BatchIdle /\ HandlerIdle
    /\ QAIdle /\ LaterIdle

SpecLoad == InitLoad /\ [][LoadNext]_vars

InitHandler ==
    /\ HandlerInit /\ DupIdle /\ MatchIdle /\ FmtIdle /\ BatchIdle /\ LoadIdle
    /\ QAIdle /\ LaterIdle

SpecHandler == InitHandler /\ [][HandlerNext]_vars

InitAnalysis ==
    /\ QAInit /\ DupIdle /\ MatchIdle /\ FmtIdle /\ BatchIdle /\ LoadIdle
    /\ HandlerIdle /\ LaterIdle

SpecAnalysis == InitAnalysis /\ [][QANext]_vars

CoreIdle ==
    /\ DupIdle /\ MatchIdle /\ FmtIdle /\ BatchIdle /\ LoadIdle /\ HandlerIdle
    /\ QAIdle

InitCompare == CmpInit /\ CoreIdle /\ TrIdle /\ OrchIdle

SpecCompare == InitCompare /\ [][CmpNext]_vars

InitTransform == TrInit /\ CoreIdle /\ CmpIdle /\ OrchIdle

SpecTransform == InitTransform /\ [][TrNext]_vars

InitOrchestrator == OrchInit /\ CoreIdle /\ CmpIdle /\ TrIdle

SpecOrchestrator == InitOrchestrator /\ [][OrchNext]_vars

\* _execute_stages is a loop on one thread over a finite list, and every
\* stage function is a loop over finite dicts: a run in progress takes its
\* next step
SpecOrchestratorLive ==
    SpecOrchestrator /\ WF_vars(ExecuteStage) /\ WF_vars(ReturnResults)

(***************************************************************************)
(* Claims about the duplicate detector                                     *)
(***************************************************************************)
\* A call has completed on a non-empty record set
DupCallDone == dup_calls > 0 /\ ~IsEmptyDF(df_before)

\* The records of df_before that share record i's values on the columns cols
GroupOf(i, cols) ==
    {j \in DOMAIN df_before.rows :
        \A c \in cols : df_before.rows[j][c] = df_before.rows[i][c]}

StatusOf(i) == df_dataset.rows[i][StatusColumn]

\* C1: after a call, in every group of records sharing the duplicate-key
\* tuple, a group of size 1 is tagged NO duplicates; a group of size n > 1 has
\* exactly one record tagged HAS duplicates, the first one in input order,
\* and exactly n-1 records tagged IS duplicate; every record carries one of
\* the three allowed status values.
C1_DuplicatePartition ==
    DupCallDone =>
        /\ DOMAIN df_dataset.rows = DOMAIN df_before.rows
        /\ \A i \in DOMAIN df_before.rows :
              LET g == GroupOf(i, Range(lst_Criteriacolumns))
                  first == CHOOSE j \in g : \A k \in g : j <= k
              IN  /\ StatusOf(i) \in {NO_DUPLICATES, HAS_DUPLICATES, IS_DUPLICATE}
                  /\ Cardinality(g) = 1 => StatusOf(i) = NO_DUPLICATES
                  /\ Cardinality(g) > 1 =>
                        /\ {j \in g : StatusOf(j) = HAS_DUPLICATES} = {first}
                        /\ Cardinality({j \in g : StatusOf(j) = IS_DUPLICATE})
                              = Cardinality(g) - 1
                        /\ \A j \in g : StatusOf(j) # NO_DUPLICATES

\* C1 witness: a first call has tagged a group of size 2 (one HAS, one IS)
\* and a group of size 1 (NO) in the same record set.
C1_Witness ==
    /\ dup_calls = 1
    /\ Len(df_before.rows) = 3
    /\ \E i, j, k \in DOMAIN df_dataset.rows :
          /\ i < j
          /\ StatusOf(i) = HAS_DUPLICATES
          /\ StatusOf(j) = IS_DUPLICATE
          /\ StatusOf(k) = NO_DUPLICATES

\* The configured key fields of the category that are columns of the record set
ConfiguredPresent ==
    IF str_datasetcategory \in DOMAIN df_Check_duplicates_params
    THEN {Strip(f) : f \in Range(df_Check_duplicates_params[str_datasetcategory])}
            \cap Range(df_before.columns)
    ELSE {}

\* C2: when the catalog has no duplicate-key field for the category, or none
\* of the configured fields is a column of the record set, the grouping key
\* is the full column set of the record set; otherwise the key is made of the
\* configured fields (those that are columns); the statuses written are
\* those of the grouping by that key.
C2_KeyResolution ==
    DupCallDone =>
        LET expected == IF ConfiguredPresent = {}
                        THEN Range(df_before.columns)
                        ELSE ConfiguredPresent
        IN  /\ Range(lst_Criteriacolumns) = expected
            /\ ConfiguredPresent = {} => lst_Criteriacolumns = df_before.columns
            /\ \A i \in DOMAIN df_before.rows :
                  (StatusOf(i) = NO_DUPLICATES) <=> (GroupOf(i, expected) = {i})

\* C2 witness: the category configures only a field that the record set does
\* not have, the first call fell back to all the columns, and two records
\* that agree on every column were tagged as duplicates while a record that
\* agrees with them on column a only was not.
C2_Witness ==
    /\ dup_calls = 1
    /\ str_datasetcategory = "CAT KEY Z"
    /\ df_before.columns = <<"a", "b">>
    /\ lst_Criteriacolumns = <<"a", "b">>
    /\ \E i, j, k \in DOMAIN df_before.rows :
          /\ i < j
          /\ df_before.rows[i] = df_before.rows[j]
          /\ df_before.rows[k]["a"] = df_before.rows[i]["a"]
          /\ df_before.rows[k]["b"] # df_before.rows[i]["b"]
          /\ StatusOf(i) = HAS_DUPLICATES
          /\ StatusOf(j) = IS_DUPLICATE
          /\ StatusOf(k) = NO_DUPLICATES

(***************************************************************************)
(* Claims about the schema matcher and the column mapper                   *)
(***************************************************************************)
\* The sheets have been categorized
Categorized == mpc \in {"sheets", "done"}

SheetNames == Range(lst_Sheets)

\* 0-based indices of the rows of sheet s that the matcher scans
ScannedRows(s) ==
    {r \in 0..(max_iterations - 1) : r < Len(SheetRows(dic_myfile_dfs[s]))}

\* The normalized cell values of row r of sheet s
RowCellSet(s, r) ==
    LET row == SheetRows(dic_myfile_dfs[s])[r + 1]
    IN  {UpperStrip(row[c]) : c \in DOMAIN row}

\* The normalized non-empty headers of catalog entry e
EntryHeaderSet(e) ==
    {UpperStrip(h) : h \in Range(df_Original_headers[e].headers) \ {""}}

ExactPairs(s) ==
    {p \in ScannedRows(s) \X DOMAIN df_Original_headers :
        EntryHeaderSet(p[2]) = RowCellSet(s, p[1])}

SubsetPairs(s) ==
    {p \in ScannedRows(s) \X DOMAIN df_Original_headers :
        EntryHeaderSet(p[2]) \subseteq RowCellSet(s, p[1])}

\* p comes first among pairs: smallest row, then earliest catalog entry
IsFirstOf(p, pairs) ==
    /\ p \in pairs
    /\ \A q \in pairs : p[1] < q[1] \/ (p[1] = q[1] /\ p[2] <= q[2])

\* The matcher's answer for sheet s is entry p[2] at row p[1]
Returned(s, p) ==
    /\ dic_myfilesheetscategories[s].category = df_Original_headers[p[2]].category
    /\ dic_myfilesheetscategories[s].header_row = p[1]

\* C3: whenever some (row, entry) pair of the scanned rows is an exact set
\* match, the matcher returns the exact pair with the smallest row index
\* and, among the entries equal at that row, the first in catalog order.
C3_ExactFirst ==
    Categorized =>
        \A s \in SheetNames :
            ExactPairs(s) # {} =>
                \E p \in ExactPairs(s) : IsFirstOf(p, ExactPairs(s)) /\ Returned(s, p)

\* C3 witness: a sheet with exact matches at two rows and with two entries
\* equal at the first of them; the earliest entry at the first row is returned.
C3_Witness ==
    /\ Categorized
    /\ \E s \in SheetNames :
          \E p, q, t \in ExactPairs(s) :
              /\ p[1] < q[1]
              /\ t[1] = p[1] /\ p[2] < t[2]
              /\ q[2] < p[2]
              /\ Returned(s, p)

\* C4: a subset match is returned only when no scanned row is an exact
\* match of any entry, and it is then the subset pair with the smallest row
\* index, then the earliest entry; an exact match in a later row wins over a
\* subset match in an earlier row.
C4_SubsetFallback ==
    Categorized =>
        \A s \in SheetNames :
            /\ (ExactPairs(s) = {} /\ SubsetPairs(s) # {}) =>
                  \E p \in SubsetPairs(s) :
                      IsFirstOf(p, SubsetPairs(s)) /\ Returned(s, p)
            /\ ExactPairs(s) # {} =>
                  \E p \in ExactPairs(s) : Returned(s, p)
            /\ \A p \in SubsetPairs(s) \ ExactPairs(s) :
                  (Returned(s, p) /\ ExactPairs(s) # {}) =>
                      \E q \in ExactPairs(s) : Returned(s, q)

\* C4 witness: a sheet whose first row is a subset match only and whose
\* second row is an exact match; the exact match of the later row is returned.
C4_Witness ==
    /\ Categorized
    /\ \E s \in SheetNames :
          \E p \in SubsetPairs(s) \ ExactPairs(s), q \in ExactPairs(s) :
              /\ p[1] < q[1]
              /\ \A t \in ExactPairs(s) : t[1] >= q[1]
              /\ Returned(s, q)

SharedHeaderRow(s, t, r, e) ==
    /\ r < Len(SheetRows(dic_myfile_dfs[s]))
    /\ r < Len(SheetRows(dic_myfile_dfs[t]))
    /\ SheetRows(dic_myfile_dfs[s])[r + 1] = SheetRows(dic_myfile_dfs[t])[r + 1]
    /\ RowCellSet(s, r) = EntryHeaderSet(e)

\* The first catalog entry with the header set of entry e
FirstWithSameHeaders(e) ==
    CHOOSE f \in DOMAIN df_Original_headers :
        /\ EntryHeaderSet(f) = EntryHeaderSet(e)
        /\ \A g \in DOMAIN df_Original_headers :
              EntryHeaderSet(g) = EntryHeaderSet(e) => f <= g

\* C6 as stated: two sheets that have, at the same row index, a header row
\* whose cell set equals entry E's header set, and that differ only in their
\* other rows, are both classified E.  The claim is read in the way most
\* favourable to it: the row is one of the scanned rows, and E is the first
\* catalog entry that has its header set.
C6_Original ==
    Categorized =>
        \A s, t \in SheetNames : \A r \in 0..(max_iterations - 1) :
            \A e \in DOMAIN df_Original_headers :
                ( /\ s # t
                  /\ SharedHeaderRow(s, t, r, e)
                  /\ FirstWithSameHeaders(e) = e )
                =>
                    /\ dic_myfilesheetscategories[s].category
                          = df_Original_headers[e].category
                    /\ dic_myfilesheetscategories[t].category
                          = df_Original_headers[e].category

\* C6 amended: two sheets that have, at the same scanned row index, a header
\* row whose cell set equals entry E's header set, and in which no earlier
\* row is an exact match of any catalog entry, get the same classification
\* whatever their other rows hold: that row, and the first catalog entry
\* whose header set equals E's (E itself when no earlier entry has the same
\* header set).
C6_Amended ==
    Categorized =>
        \A s, t \in SheetNames : \A r \in 0..(max_iterations - 1) :
            \A e \in DOMAIN df_Original_headers :
                ( /\ SharedHeaderRow(s, t, r, e)
                  /\ \A p \in ExactPairs(s) \cup ExactPairs(t) : p[1] >= r )
                =>
                    /\ Returned(s, <<r, FirstWithSameHeaders(e)>>)
                    /\ Returned(t, <<r, FirstWithSameHeaders(e)>>)

\* C6 witness: two sheets share an exactly matching header row at index 1;
\* their rows at index 0 differ, one of them being a subset match of another
\* entry; both sheets are classified by the shared row.
C6_Witness ==
    /\ Categorized
    /\ \E s, t \in SheetNames : \E e \in DOMAIN df_Original_headers :
          /\ SharedHeaderRow(s, t, 1, e)
          /\ SheetRows(dic_myfile_dfs[s])[1] # SheetRows(dic_myfile_dfs[t])[1]
          /\ \E p \in SubsetPairs(s) : p[1] = 0 /\ p[2] # e
          /\ SubsetPairs(t) \cap ({0} \X DOMAIN df_Original_headers) = {}
          /\ Returned(s, <<1, e>>)
          /\ Returned(t, <<1, e>>)

\* C9 as stated: in a converted sheet the k-th matched raw column position
\* receives the k-th canonical header, and the canonical headers beyond the
\* number of matched positions go to the raw columns that continue by
\* position after the last matched one.
C9_PositionalRename ==
    \A s \in DOMAIN dic_updated_sheets :
        LET entry == dic_updated_sheets[s]
            matched == entry.df.matched
            new == entry.new_headers
        IN  (entry.df.status = "ok" /\ matched # <<>>) =>
                \A k \in DOMAIN new :
                    LET col == IF k <= Len(matched) THEN matched[k]
                               ELSE matched[Len(matched)] + (k - Len(matched))
                    IN  /\ col \in DOMAIN entry.df.rename
                        /\ entry.df.rename[col] = new[k]

(***************************************************************************)
(* Claims about the per-sheet loop                                         *)
(***************************************************************************)
\* The conversion of sheet s taken on its own, from the matcher's result
ConvertAlone(s) ==
    LET m == fn_find_matching_category(ReadSheetHead(dic_myfile_dfs[s]))
    IN  fn_convert_Worksheet2dataframe(dic_myfile_dfs[s],
            HeaderRowForConversion(m.category, m.header_row),
            m.current_headers, m.headers_idx, m.new_headers)

\* C11: when fn_get_metadata_and_stdzed_dfs is over, a sheet whose
\* conversion raises has its error logged and no updated entry, and every
\* other sheet of the file has been converted and stored, whatever happened
\* to its sibling sheets.
C11_FailureIsolation ==
    mpc = "done" =>
        \A s \in Range(lst_Sheets) :
            IF ConvertAlone(s).status = "raise"
            THEN s \in Range(lst_sheet_errors) /\ s \notin DOMAIN dic_updated_sheets
            ELSE /\ s \notin Range(lst_sheet_errors)
                 /\ s \in DOMAIN dic_updated_sheets
                 /\ dic_updated_sheets[s].df = ConvertAlone(s)

\* The first sheet raised and the second one was converted with data
C11_Witness ==
    /\ mpc = "done"
    /\ lst_sheet_errors = <<lst_Sheets[1]>>
    /\ lst_Sheets[2] \in DOMAIN dic_updated_sheets
    /\ dic_updated_sheets[lst_Sheets[2]].df.status = "ok"

\* C12 as stated: after a file is processed, every sheet entry left in the
\* result mapping carries a normalized record set (a failed sheet is omitted).
C12_NoPartialEntry ==
    mpc = "done" =>
        \A s \in DOMAIN dic_myfilesheetscategories :
            "df" \in DOMAIN dic_myfilesheetscategories[s]

(***************************************************************************)
(* Claims about the upload batch                                           *)
(***************************************************************************)
\* The two views of fn_get_metadata_and_stdzed_dfs agree: the mapping the
\* per-sheet loop ends with is the one the function returns as a whole
MatchDoneAgrees ==
    mpc = "done" =>
        dic_myfilesheetscategories =
            fn_get_metadata_and_stdzed_dfs(
                [name |-> "a.xlsx", readable |-> TRUE, sheets |-> dic_myfile_dfs])

\* C13 as stated: when the run of a batch is over, every file of the batch
\* has been processed and stored, whatever happened to the other files.
C13_BatchContainment ==
    bpc \notin {"loop", "idle"} =>
        \A i \in DOMAIN uploaded_files :
            uploaded_files[i].name \in DOMAIN file_metadata

(***************************************************************************)
(* Claims about the catalog loader                                         *)
(***************************************************************************)
\* C14 as stated: load_parameters does not return normally with the catalog
\* unset or partly set; when the source is unreachable or malformed the
\* caller gets a fatal load error.
C14_FailFast ==
    \A c \in DOMAIN load_returned :
        load_returned[c] = "normal" =>
            \A t \in CatalogTables : dic_catalog[t] # None

\* C15 as stated: once a call of load_parameters has completed
\* successfully, no step of any caller, in any interleaving, reads the
\* external source again or changes a catalog table.
C15_LoadedOnce ==
    [][bln_parameters_loaded =>
          /\ int_source_reads' = int_source_reads
          /\ dic_filesparams_dfs' = dic_filesparams_dfs
          /\ dic_catalog' = dic_catalog]_vars

(***************************************************************************)
(* Claims about the post-processing handler                                *)
(***************************************************************************)
\* The records held by a dict of the handler
RetainedRecords(dic) == UNION {Range(dic[k]) : k \in DOMAIN dic}

\* C16 as stated: after any sequence of invocations of
\* fn_handle_specific_cases the handler retains no data produced by an
\* invocation, so that nothing of an earlier invocation can be seen by a
\* later one.
C16_Stateless ==
    /\ RetainedRecords(dic_dfs_CustomExcelfiles) = {}
    /\ RetainedRecords(dic_Allprocesseddatasets) = {}

(***************************************************************************)
(* Claims about the quick analysis engine                                  *)
(***************************************************************************)
\* a name matches a pattern list when it contains one of the patterns,
\* letter case set aside
MatchesAny(col, patterns) ==
    \E i \in DOMAIN patterns : contains(upper(col), upper(patterns[i]))

\* the fields summed in a yearly summary: its columns but the two keys
SummedFields(summary) ==
    {summary.columns[i] : i \in DOMAIN summary.columns}
        \ {col_YEAR, col_Date_Range}

\* C17: a numeric field of the analysed record set is summed in the yearly
\* summary if and only if its name matches at least one configured include
\* pattern and no configured exclude pattern.
C17_FieldSelection ==
    (qa_calls > 0 /\ yearly_summary # EmptyFrame) =>
        LET config == get_numeric_field_config(df_numeric_config)
        IN  \A i \in DOMAIN qa_df.columns :
                LET col == qa_df.columns[i]
                IN  is_numeric_dtype(qa_df, col) =>
                        (col \in SummedFields(yearly_summary)
                            <=> /\ MatchesAny(col, config.include)
                                /\ ~ MatchesAny(col, config.exclude))

\* the record set without its records tagged IS duplicate
WithoutIsDuplicate(df) ==
    IF ~ InColumns(df, col_Duplicate_Status) THEN df
    ELSE FilterRows(df,
             LAMBDA r : upper(r[col_Duplicate_Status]) # str_IS_DUPLICATE)

\* C18: the concentration analysis uses clean records only: the analysis
\* of a record set is the analysis of the same record set with every
\* record tagged IS duplicate taken out, so no such record contributes to a
\* partner total, a yearly total or a Top-N amount.
C18_CleanRecordsOnly ==
    qa_calls > 0 =>
        top_analysis = _generate_top_analysis(WithoutIsDuplicate(qa_df),
                                              qa_group_name, exclude_patterns)

\* a Top-N table was made for a record set that holds an IS duplicate record
C18_Witness ==
    /\ qa_calls > 0
    /\ top_analysis.top_analysis_table # <<>>
    /\ \E i \in DOMAIN qa_df.rows :
          upper(qa_df.rows[i][col_Duplicate_Status]) = str_IS_DUPLICATE

\* C19: the partner column is resolved by the priority supplier-name, then
\* buyer-name, then client/customer-name, whatever the order of the
\* columns: a supplier-name column is chosen when there is one, else a
\* buyer-name column when there is one.
C19_PartnerPriority ==
    (qa_calls > 0 /\ InColumns(qa_df, col_YEAR)) =>
        LET cols == {qa_df.columns[i] : i \in DOMAIN qa_df.columns}
            partner_col == partner_col_of(df_clean_of(qa_df))
        IN  /\ (\E c \in cols : IsSupplierName(c)) => IsSupplierName(partner_col)
            /\ ((\E c \in cols : IsBuyerName(c))
                   /\ ~ \E c \in cols : IsSupplierName(c))
                  => IsBuyerName(partner_col)

\* ---- Top-N shares ----
\* the partner totals of a year of a record set of clean records
PartnerTotals(df, year) ==
    partner_yearly(df, partner_col_of(df),
                   get_numeric_columns(df, exclude_patterns), year)

YearsOf(df) == {df.rows[i][col_YEAR] : i \in DOMAIN df.rows}

RECURSIVE SumTotals(_, _)
SumTotals(totals, S) ==
    IF S = {} THEN 0
    ELSE LET pt == CHOOSE x \in S : TRUE
         IN  totals[pt] + SumTotals(totals, S \ {pt})

\* the sum of the n largest totals (n at most the number of partners): v is
\* the n-th largest total, every total above v counts, and v fills the rest
SumOfLargest(totals, n) ==
    LET v == CHOOSE x \in {totals[pt] : pt \in DOMAIN totals} :
                 /\ Cardinality({pt \in DOMAIN totals : totals[pt] > x}) < n
                 /\ Cardinality({pt \in DOMAIN totals : totals[pt] >= x}) >= n
        above == {pt \in DOMAIN totals : totals[pt] > v}
    IN  SumTotals(totals, above) + (n - Cardinality(above)) * v


\* p tenths of a percent is num / den * 100 shown with one decimal
IsShare(p, num, den) == 2 * Abs(1000 * num - p * den) <= Abs(den)

TopRows(year, n) ==
    SelectSeq(top_analysis.top_analysis_table,
              LAMBDA row : row.YEAR = year /\ row.top_n = n)

\* a Top-N row is reported if and only if the year has at least n partners
ReportedIffEnough(rows, totals, n) ==
    /\ Len(rows) <= 1
    /\ Len(rows) = 1 <=> Cardinality(DOMAIN totals) >= n

\* C20, as stated: for each year and each N in {5, 10, 20} a Top-N row is
\* reported if and only if the year has at least N partners, and its
\* percentage is the sum of the N largest partner totals divided by the
\* year's total, times 100.
C20_Original ==
    (qa_calls > 0 /\ ~ top_analysis.empty) =>
        \A df \in {df_clean_of(qa_df)} :
        \A year \in YearsOf(df) :
        \A totals \in {PartnerTotals(df, year)} :
        \A year_total \in {SumTotals(totals, DOMAIN totals)} :
        \A n \in {5, 10, 20} :
        \A rows \in {TopRows(year, n)} :
            /\ ReportedIffEnough(rows, totals, n)
            /\ \A k \in DOMAIN rows :
                  /\ year_total # 0
                  /\ IsShare(rows[k].percentage, SumOfLargest(totals, n),
                             year_total)

\* C20, amended: the same, the percentage being that quotient when the
\* year's total is positive and 0 when it is not.
C20_Amended ==
    (qa_calls > 0 /\ ~ top_analysis.empty) =>
        \A df \in {df_clean_of(qa_df)} :
        \A year \in YearsOf(df) :
        \A totals \in {PartnerTotals(df, year)} :
        \A year_total \in {SumTotals(totals, DOMAIN totals)} :
        \A n \in {5, 10, 20} :
        \A rows \in {TopRows(year, n)} :
            /\ ReportedIffEnough(rows, totals, n)
            /\ \A k \in DOMAIN rows :
                  /\ rows[k].total_amount = SumOfLargest(totals, n)
                  /\ IF year_total > 0
                     THEN IsShare(rows[k].percentage, rows[k].total_amount,
                                  year_total)
                     ELSE rows[k].percentage = 0

\* twenty partners of equal totals in a year: Top 5 is 25.0 %, Top 20 is
\* 100.0 %
C20_Witness ==
    /\ qa_calls > 0
    /\ ~ top_analysis.empty
    /\ \E df \in {df_clean_of(qa_df)} :
       \E year \in YearsOf(df) :
       \E totals \in {PartnerTotals(df, year)} :
          /\ Cardinality(DOMAIN totals) = 20
          /\ \A a \in DOMAIN totals, b \in DOMAIN totals : totals[a] = totals[b]
          /\ Len(TopRows(year, 5)) = 1 /\ TopRows(year, 5)[1].percentage = 250
          /\ Len(TopRows(year, 10)) = 1
          /\ Len(TopRows(year, 20)) = 1 /\ TopRows(year, 20)[1].percentage = 1000

(***************************************************************************)
(* Claims about the category comparison                                    *)
(***************************************************************************)
\* the texts of a set of values
TextsOf(S) == {str_of(x) : x \in S}

\* a list of texts names every member of S once and nothing else
ListsAll(lst, S) ==
    /\ {lst[i] : i \in DOMAIN lst} = TextsOf(S)
    /\ Len(lst) = Cardinality(S)

\* a display form shows at most 10 members of S, each once
ShowsAtMostTen(form, S) ==
    /\ Len(form.items) <= 10
    /\ {form.items[i] : i \in DOMAIN form.items} \subseteq TextsOf(S)
    /\ \A i \in DOMAIN form.items, j \in DOMAIN form.items :
          form.items[i] = form.items[j] => i = j

\* C21: with A and B the sets of distinct non-null values of the two
\* fields, the comparison reports A minus B as missing in category 2 and
\* B minus A as missing in category 1; the display form lists at most 10
\* of the items and the full form lists all of them.
C21_SetDifferences ==
    cmp_calls > 0 =>
        LET A == unique_values(col_cat1)
            B == unique_values(col_cat2)
        IN  /\ ~ comp_res.none
            /\ ListsAll(comp_res.dict[<<"Full_Missing in", cat2_name>>], A \ B)
            /\ ListsAll(comp_res.dict[<<"Full_Missing in", cat1_name>>], B \ A)
            /\ ShowsAtMostTen(comp_res.dict[<<"Missing in", cat2_name>>], A \ B)
            /\ ShowsAtMostTen(comp_res.dict[<<"Missing in", cat1_name>>], B \ A)

(***************************************************************************)
(* Claims about the record-set transforms                                  *)
(***************************************************************************)
\* C22: after the sign exchange, every row whose price was negative has
\* the price's sign flipped and the paired quantity negated, the rows
\* with a non-negative price are unchanged, and no row has both price and
\* quantity negative.
C22_SignExchange ==
    tr_op = "fn_exchange_negativesign" =>
        /\ Len(df_out) = Len(df_in)
        /\ \A i \in DOMAIN df_in :
              /\ df_in[i]["UNIT PRICE"] < 0 =>
                    /\ df_out[i]["UNIT PRICE"] = -df_in[i]["UNIT PRICE"]
                    /\ df_out[i]["QUANTITY"] = -df_in[i]["QUANTITY"]
              /\ df_in[i]["UNIT PRICE"] >= 0 => df_out[i] = df_in[i]
              /\ ~ (df_out[i]["UNIT PRICE"] < 0 /\ df_out[i]["QUANTITY"] < 0)


\* The one-to-one matching the refund rows are expected to get: the refund
\* rows are taken in row order, and each consumes the first earlier normal
\* row with its matching tuple that no refund row before it consumed.  The
\* result maps every refund row to the normal row it consumes, 0 for none.
RECURSIVE FirstUnconsumed(_, _, _, _)
FirstUnconsumed(df, nr, consumed, acc) ==
    IF nr = <<>> THEN acc
    ELSE LET i    == Head(nr)
             free == {j \in 1..(i - 1) :
                         /\ df[j]["OPERATION TYPE"] = "NS"
                         /\ MatchingTuple(df[j]) = MatchingTuple(df[i])
                         /\ j \notin consumed}
             j    == IF free = {} THEN 0 ELSE (CHOOSE x \in free : \A y \in free : x <= y)
         IN  FirstUnconsumed(df, Tail(nr), consumed \cup (IF j = 0 THEN {} ELSE {j}),
                             acc @@ (i :> j))

ExpectedMatching(df) == FirstUnconsumed(df, RowsOfType(df, "NR"), {}, <<>>)

\* C23: refund matching is one-to-one and first-unconsumed: exactly the
\* normal rows consumed by a refund row are REFUNDED, the other normal rows
\* are NORMAL SALE, and a refund row is REFUND NO MATCH only when no
\* unconsumed earlier normal row with its matching tuple exists.
C23_RefundMatching ==
    tr_op = "fn_calculate_refund_status" =>
        \A m \in {ExpectedMatching(WithMrcTotals(df_in))} :
            \A i \in DOMAIN df_out :
                /\ df_out[i]["OPERATION TYPE"] = "NS" =>
                      df_out[i]["REFUND STATUS"] =
                          (IF \E r \in DOMAIN m : m[r] = i
                           THEN "REFUNDED" ELSE "NORMAL SALE")
                /\ df_out[i]["OPERATION TYPE"] = "NR" =>
                      (df_out[i]["REFUND STATUS"] = "REFUND NO MATCH" <=> m[i] = 0)


\* the rows of a group in a record set
RowsOfGroup(df, g) == SelectSeq(df, LAMBDA r : r["CURRENCY"] = g)

\* C24: after the missing-date backfill every group has exactly one row
\* for every calendar day between that group's first and last observed
\* date, and the value of an inserted day is the value of the same group's
\* most recent earlier observed day.
C24_BackfillPerGroup ==
    tr_op = "fn_insert_missingdates" =>
        \A src \in {drop_duplicates_on_key(df_in)} :
        \A g \in {src[i]["CURRENCY"] : i \in DOMAIN src} :
            \A obs \in {RowsOfGroup(src, g)} :
            \A res \in {RowsOfGroup(df_out, g)} :
                LET days == {obs[i]["TRANSACTION DATE"] : i \in DOMAIN obs}
                    lo   == CHOOSE d \in days : \A e \in days : d <= e
                    hi   == CHOOSE d \in days : \A e \in days : e <= d
                    last_seen(d) == CHOOSE e \in days :
                                        e <= d /\ \A f \in days : f <= d => f <= e
                IN  /\ Len(res) = hi - lo + 1
                    /\ \A k \in DOMAIN res :
                          /\ res[k]["TRANSACTION DATE"] = lo + k - 1
                          /\ \E i \in DOMAIN obs :
                                /\ obs[i]["TRANSACTION DATE"] = last_seen(lo + k - 1)
                                /\ res[k]["RATE"] = obs[i]["RATE"]


\* the rows of a device sheet whose criteria value is neither missing,
\* empty nor one of the header texts of the call
KeptRows(df, category) ==
    {i \in DOMAIN df :
        /\ df[i].tin.kind = "str"
        /\ df[i].tin.s # ""
        /\ df[i].tin.s \notin lst_Tin2remove_of(category)}

\* C25: among the kept rows of a device sheet, the rows with a valid
\* transaction date are the summary set and all the others are the detail
\* set; the two sets are disjoint and together are the kept rows.
C25_SummaryDetailPartition ==
    tr_op \in {EBM_DEVICE_PURCHASES, EBM_DEVICE_SALES} =>
        LET kept == KeptRows(df_in, tr_op)
        IN  /\ Range(df_out.summary) = {i \in kept : fn_is_valid_date(df_in[i].date)}
            /\ Range(df_out.details) = {i \in kept : ~fn_is_valid_date(df_in[i].date)}
            /\ Range(df_out.summary) \cap Range(df_out.details) = {}
            /\ Range(df_out.summary) \cup Range(df_out.details) = kept
            /\ Len(df_out.summary) + Len(df_out.details) = Cardinality(kept)

\* a sheet with a removed row, a summary row and a detail row
C25_Witness ==
    /\ tr_op = EBM_DEVICE_PURCHASES
    /\ Len(df_in) = 3
    /\ Len(df_out.summary) = 1
    /\ Len(df_out.details) = 1


\* every record has the two columns with the given values
AllCategorized(df, category, group) ==
    \A i \in DOMAIN df :
        /\ "TRANSACTION CATEGORY" \in DOMAIN df[i]
        /\ df[i]["TRANSACTION CATEGORY"] = category
        /\ df[i]["FINANCIAL STATEMENT GROUP"] = group

\* C26: after the group inference every record of a set that has the two
\* TIN columns carries a TRANSACTION CATEGORY; it is SALES (statement group
\* SALES) when the supplier TIN has exactly one distinct value and
\* PURCHASES (statement group COGS-EXPENSES) when the client TIN has
\* exactly one distinct value.
C26_GroupInference ==
    (tr_op = "fn_calculate_tradescategory" /\ "SUPPLIER TIN" \in DOMAIN df_in[1]) =>
        /\ \A i \in DOMAIN df_out : "TRANSACTION CATEGORY" \in DOMAIN df_out[i]
        /\ nunique(df_out, "SUPPLIER TIN") = 1 => AllCategorized(df_out, "SALES", "SALES")
        /\ nunique(df_out, "CLIENT TIN") = 1 =>
              AllCategorized(df_out, "PURCHASES", "COGS-EXPENSES")


(***************************************************************************)
(* Claims about the position list of a converted sheet                     *)
(***************************************************************************)
\* the sheets the per-sheet loop has converted so far
ConvertedSheets ==
    IF mpc \in {"sheets", "done"}
    THEN {lst_Sheets[i] : i \in 1..(int_sheet - 1)}
    ELSE {}

\* no column index occurs twice in the list
NoIndexTwice(idx) == \A i, j \in DOMAIN idx : idx[i] = idx[j] => i = j

\* C28: for every sheet classified to a known category, once the
\* conversion has extended the matcher's position list, the list has as
\* many column indices as the category has canonical headers and no index
\* occurs twice.
C28_PositionsWellFormed ==
    \A s \in ConvertedSheets :
        LET entry == dic_myfilesheetscategories[s]
        IN  entry.category # UNKNOWN =>
                /\ Len(entry.headers_idx) = Len(entry.new_headers)
                /\ NoIndexTwice(entry.headers_idx)


(***************************************************************************)
(* Claims about the detector applied to its own output                     *)
(***************************************************************************)
\* C29: duplicate detection is idempotent: applied to its own output, which
\* already has the Duplicate Status column, it gives every record the
\* status the first application gave it, with a configured key and under
\* the all-columns fallback.
C29_DetectionIdempotent ==
    dup_calls = 2 =>
        /\ Len(df_dataset.rows) = Len(df_before.rows)
        /\ \A i \in DOMAIN df_dataset.rows :
              df_dataset.rows[i][StatusColumn] = df_before.rows[i][StatusColumn]


(***************************************************************************)
(* Claims about the global analysis orchestrator                           *)
(***************************************************************************)
\* the stages named by the error messages, in order
ErrorStages == [k \in DOMAIN results.errors |-> results.errors[k][1]]

\* the stages are called in the order of the list, none skipped
CalledInOrder ==
    opc \in {"running", "returned"} =>
        lst_executed = SubSeq(stages, 1, int_stage - 1)

\* a run returns after every stage of its list was called, with status
\* 'completed' (the finalize stage has nothing that raises)
ReturnsCompleted ==
    opc = "returned" => (lst_executed = stages /\ results.status = "completed")

SingleRunResults == _stage_validate_data(InitialResults, orch_file_metadata).results

\* C30: however many times run_analysis was called on the orchestrator,
\* files_processed, categories_found, groups_found and total_records are
\* those of a single call on the same file metadata.
C30_NoAccumulation ==
    opc = "returned" =>
        /\ results.files_processed = SingleRunResults.files_processed
        /\ results.categories_found = SingleRunResults.categories_found
        /\ results.groups_found = SingleRunResults.groups_found
        /\ results.total_records = SingleRunResults.total_records
        /\ get_summary_statistics(results) = get_summary_statistics(SingleRunResults)

(***************************************************************************)
(* Type normalizer                                                         *)
(***************************************************************************)
\* The first call of fn_apply_formats on a cell of a date column is over
DateCallDone == str_format = "FORMAT DATE" /\ fmt_calls = 1

\* C7 as stated: a raw value of a date column that fn_parse_dates_multipleformats
\* does not turn into a date (it is no serial number below the boundary and no
\* configured format parses it after month substitution) is returned
\* unchanged, and the function does not raise.
C7_PassThrough ==
    (DateCallDone /\ (var_cell.kind # "datetime" \/ var_raw.kind = "datetime")) =>
        /\ fmt_raised = ""
        /\ var_cell = var_raw

\* Token i of the raw text is a month name or abbreviation of dic_month_map,
\* in any letter case, standing as a whole word
IsMonthToken(toks, i) ==
    /\ toks[i].t = "word"
    /\ \E k \in dic_month_map : k.letters = toks[i].txt
    /\ i = 1 \/ toks[i - 1].t = "sep"
    /\ i = Len(toks) \/ toks[i + 1].t = "sep"

\* C8 as stated: every month name or abbreviation of dic_month_map, written
\* in any letter case as a whole word of a text that reaches month
\* substitution, is replaced by its two-digit month number, the other tokens
\* staying as they are.
C8_MonthSubstitution ==
    (DateCallDone /\ var_raw.kind = "str" /\ ~IsDigitText(var_raw.toks)) =>
        /\ fmt_raised = ""
        /\ Len(str_substituted) = Len(var_raw.toks)
        /\ \A i \in DOMAIN var_raw.toks :
              str_substituted[i] =
                  IF IsMonthToken(var_raw.toks, i)
                  THEN Num(LookupAnyCase(var_raw.toks[i].txt), 2)
                  ELSE var_raw.toks[i]

\* C10 as stated: a second call of fn_apply_formats on an already normalized
\* cell leaves it as the first call returned it.
C10_Idempotent ==
    (fmt_calls = 2 /\ fmt_raised = "") => var_cell = var_before

====
